---------------------------- MODULE Spec2Model ----------------------------
(***************************************************************************)
(* Tile grid, occupancy query and level text format of open-theft-auto.    *)
(*                                                                         *)
(* Lengths (tile size, world coordinates, vehicle sizes) and angles are    *)
(* integers counting thousandths: the tile size 3.0f is 3000.  Texture     *)
(* identifiers and paths are strings, "" the empty string.                 *)
(***************************************************************************)
EXTENDS Integers, Sequences, FiniteSets, TLC

VARIABLES
    constructed,      \* a TileGrid object exists; initialize() has / has not run
    initialized,
    m_gridSize,       \* TileGrid::m_gridSize  <<x, y, z>>
    m_tileSize,       \* TileGrid::m_tileSize  (thousandths)
    m_tiles,          \* TileGrid::m_tiles     flat sequence of tiles
    m_textureAliases, \* TileGrid::m_textureAliases  alias -> path
    vehicleSpawns,    \* LevelData::vehicleSpawns
    m_vehicleSpawns,  \* TileGrid::m_vehicleSpawns
    edits,            \* number of editor mutations applied so far
    lastOp,           \* name of the operation that ran last
    q,                \* what the last operation was given and what it returned
    m_textureCache,   \* TileGrid::m_textureCache  the paths that have an entry
    loaderCalls,      \* Texture::loadFromFile calls made so far, per path
    renderedTile,     \* one Tile with its meshes and m_meshesGenerated
    vehicle,          \* a Vehicle: m_position, m_rotation, m_speed, m_size
    player,           \* the Player: m_position
    steps,            \* calls and frames so far, where a bound counts them
    m_keys,           \* InputManager::m_keys         the keys mapped to true
    m_keysPressed,    \* InputManager::m_keysPressed  the keys mapped to true
    inputLog,         \* key events and frames so far, oldest first
    m_selectedTiles,  \* TileGridEditor::m_selectedTiles
    m_moveMode,       \* TileGridEditor::m_moveMode
    m_moveOffset,     \* TileGridEditor::m_moveOffset
    m_enabled,        \* TileGridEditor::m_enabled  (edit mode)
    m_playerInVehicle,\* Scene::m_playerInVehicle
    m_activeVehicle,  \* Scene::m_activeVehicle  (0 is nullptr)
    m_vehicles        \* Scene::m_vehicles  the world position of each

gridVars == <<constructed, initialized, m_gridSize, m_tileSize, m_tiles,
              m_textureAliases, vehicleSpawns, m_vehicleSpawns, edits>>

textureVars == <<m_textureCache, loaderCalls>>

moverVars == <<vehicle, player, steps>>

inputVars == <<m_keys, m_keysPressed, inputLog>>

selectionVars == <<m_selectedTiles, m_moveMode, m_moveOffset>>

sceneVars == <<m_enabled, m_playerInVehicle, m_activeVehicle, m_vehicles>>

\* everything but the grid, the level data and the record of the last operation
otherVars == <<textureVars, renderedTile, moverVars, inputVars, selectionVars, sceneVars>>

vars == <<gridVars, lastOp, q, otherVars>>

-----------------------------------------------------------------------------
(* Bounds of the model *)

\* editor mutations per behaviour
MaxEdits == 2

\* lines of a level file given to loadLevel
MaxLines == 2

-----------------------------------------------------------------------------
(* Tile.hpp *)

North == 0
South == 1
East == 2
West == 3

WallDirections == {North, South, East, West}

CarDirections == {"None", "North", "South", "East", "West", "NorthSouth", "EastWest"}

\* WallData(true, "")
DefaultWall == [walkable |-> TRUE, texturePath |-> ""]

\* TopSurfaceData(false, "", CarDirection::None)
DefaultTop == [solid |-> FALSE, texturePath |-> "", carDirection |-> "None"]

\* Tile::Tile
NewTile(gridPos) ==
    [gridPosition |-> gridPos,
     walls |-> [d \in WallDirections |-> DefaultWall],
     topSurface |-> DefaultTop]

\* Tile::setWall(dir, walkable, texturePath)
setWall(tile, dir, walkable, texturePath) ==
    [tile EXCEPT !.walls[dir] = [walkable |-> walkable, texturePath |-> texturePath]]

\* Tile::setTopSurface(solid, texturePath, carDir)
setTopSurface(tile, solid, texturePath, carDir) ==
    [tile EXCEPT !.topSurface =
        [solid |-> solid, texturePath |-> texturePath, carDirection |-> carDir]]

\* Tile::setCarDirection
setCarDirection(tile, dir) ==
    [tile EXCEPT !.topSurface.carDirection = dir]

isWallWalkable(tile, dir) == tile.walls[dir].walkable

isTopSolid(tile) == tile.topSurface.solid

-----------------------------------------------------------------------------
(* TileGrid.cpp: storage and bounds *)

DefaultTileSize == 3000

\* the four aliases TileGrid::initialize registers
DefaultAliases ==
    [a \in {"grass", "road", "wall", "car"} |->
        CASE a = "grass" -> "assets/textures/grass.png"
          [] a = "road"  -> "assets/textures/road.png"
          [] a = "wall"  -> "assets/textures/wall.png"
          [] a = "car"   -> "assets/textures/car.png"]

\* the result of getTile on a position outside the grid
NullTile == [null |-> TRUE]

\* the result of m_tiles[index] with index >= m_tiles.size(): undefined behaviour
DanglingTile == [dangling |-> TRUE]

\* grid position of the k-th tile (k from 0) pushed by rebuildTiles' loops
PosOfIndex(size, k) ==
    <<k % size[1], (k \div size[1]) % size[2], k \div (size[1] * size[2])>>

\* the tile vector rebuildTiles builds for a valid size
FreshTiles(size) ==
    [i \in 1..(size[1] * size[2] * size[3]) |-> NewTile(PosOfIndex(size, i - 1))]

SizeIsValid(size) == size[1] > 0 /\ size[2] > 0 /\ size[3] > 0

\* isValidPosition and getIndex for a grid of the given size
ValidIn(size, x, y, z) ==
    /\ x >= 0 /\ x < size[1]
    /\ y >= 0 /\ y < size[2]
    /\ z >= 0 /\ z < size[3]

IndexIn(size, x, y, z) == x + y * size[1] + z * size[1] * size[2]

isValidPosition(x, y, z) == ValidIn(m_gridSize, x, y, z)

getIndex(x, y, z) == IndexIn(m_gridSize, x, y, z)

getTile(x, y, z) ==
    IF ~isValidPosition(x, y, z) THEN NullTile
    ELSE IF (getIndex(x, y, z) + 1) \in DOMAIN m_tiles
         THEN m_tiles[getIndex(x, y, z) + 1]
         ELSE DanglingTile

IsLiveTile(t) == "gridPosition" \in DOMAIN t

-----------------------------------------------------------------------------
(* The objects around the grid, as their constructors leave them *)

\* the paths textures are asked for: two files that exist, one that does not
TexturePaths ==
    {"assets/textures/grass.png", "assets/textures/road.png", "missing.png"}

\* Tile::Tile: no meshes, m_meshesGenerated(false)
NewRenderedTile ==
    [walls |-> [d \in WallDirections |-> DefaultWall],
     topSurface |-> DefaultTop,
     m_wallMeshes |-> {},
     m_topMesh |-> FALSE,
     m_meshesGenerated |-> FALSE]

\* Vehicle::Vehicle and Vehicle::initialize
NewVehicle ==
    [m_position |-> <<0, 0, 100>>, m_rotation |-> 0, m_speed |-> 0,
     m_size |-> <<1500, 3000>>, m_playerControlled |-> FALSE]

\* Player::initialize
NewPlayer == [m_position |-> <<0, 0, 100>>]

InitOther ==
    /\ m_textureCache = {}
    /\ loaderCalls = [path \in TexturePaths |-> 0]
    /\ renderedTile = NewRenderedTile
    /\ vehicle = NewVehicle
    /\ player = NewPlayer
    /\ steps = 0
    /\ m_keys = {}
    /\ m_keysPressed = {}
    /\ inputLog = << >>
    /\ m_selectedTiles = << >>
    /\ m_moveMode = FALSE
    /\ m_moveOffset = <<0, 0, 0>>
    /\ m_enabled = FALSE
    /\ m_playerInVehicle = FALSE
    /\ m_activeVehicle = 0
    /\ m_vehicles = << >>

-----------------------------------------------------------------------------
(* TileGrid.cpp: coordinates and the occupancy query *)

gridToWorld(gridPos) ==
    <<gridPos[1] * m_tileSize, gridPos[2] * m_tileSize, (gridPos[3] - 1) * m_tileSize>>

\* floor((c + tileSize/2) / tileSize) for x and y, floor((z + tileSize) / tileSize)
worldToGrid(worldPos) ==
    <<(2 * worldPos[1] + m_tileSize) \div (2 * m_tileSize),
      (2 * worldPos[2] + m_tileSize) \div (2 * m_tileSize),
      (worldPos[3] + m_tileSize) \div m_tileSize>>

hasGroundSupport_OwnTile(tilePos) ==
    LET groundTile == getTile(tilePos[1], tilePos[2], tilePos[3])
    IN  IF ~IsLiveTile(groundTile) THEN FALSE ELSE isTopSolid(groundTile)

hasGroundSupport_NoLayerCheck(tilePos) ==
    LET groundZ == tilePos[3] - 1
    IN  IF groundZ < 0 THEN TRUE
        ELSE LET groundTile == getTile(tilePos[1], tilePos[2], groundZ)
             IN  IF ~IsLiveTile(groundTile) THEN FALSE ELSE isTopSolid(groundTile)

hasGroundSupport(tilePos) ==
    LET groundZ == tilePos[3] - 1
    IN  IF groundZ < 0 THEN FALSE
        ELSE LET groundTile == getTile(tilePos[1], tilePos[2], groundZ)
             IN  IF ~IsLiveTile(groundTile) THEN FALSE ELSE isTopSolid(groundTile)

Abs(n) == IF n < 0 THEN -n ELSE n

\* the pair <<fromDir, toDir>> canOccupy picks for a one-cell step, << >> when
\* the step is along neither axis
StepWalls(diff) ==
    IF diff[1] = 1 THEN <<West, East>>
    ELSE IF diff[1] = -1 THEN <<East, West>>
    ELSE IF diff[2] = 1 THEN <<South, North>>
    ELSE IF diff[2] = -1 THEN <<North, South>>
    ELSE << >>

\* the walls checked once the cells are known to be one orthogonal step apart
WallsAllowStep(startTile, endTile, dirs) ==
    LET fromTile == getTile(startTile[1], startTile[2], startTile[3])
        toTile == getTile(endTile[1], endTile[2], endTile[3])
    IN  IF ~IsLiveTile(fromTile) \/ ~IsLiveTile(toTile) THEN FALSE
        ELSE ~(~isWallWalkable(fromTile, dirs[1]) \/ ~isWallWalkable(toTile, dirs[2]))

canOccupy_EitherWallOpen(startPos, endPos) ==
    LET startTile == worldToGrid(startPos)
        endTile == worldToGrid(endPos)
        diff == <<endTile[1] - startTile[1], endTile[2] - startTile[2],
                  endTile[3] - startTile[3]>>
        dirs == StepWalls(diff)
        fromTile == getTile(startTile[1], startTile[2], startTile[3])
        toTile == getTile(endTile[1], endTile[2], endTile[3])
    IN  IF ~isValidPosition(startTile[1], startTile[2], startTile[3]) THEN FALSE
        ELSE IF ~isValidPosition(endTile[1], endTile[2], endTile[3]) THEN FALSE
        ELSE IF startTile = endTile THEN hasGroundSupport(endTile)
        ELSE IF diff[3] # 0 THEN FALSE
        ELSE IF Abs(diff[1]) + Abs(diff[2]) > 1 THEN FALSE
        ELSE IF dirs = << >> THEN hasGroundSupport(endTile)
        ELSE IF ~IsLiveTile(fromTile) \/ ~IsLiveTile(toTile) THEN FALSE
        ELSE IF ~isWallWalkable(fromTile, dirs[1]) /\ ~isWallWalkable(toTile, dirs[2])
             THEN FALSE
        ELSE hasGroundSupport(endTile)

canOccupy_NoDistanceCheck(startPos, endPos) ==
    LET startTile == worldToGrid(startPos)
        endTile == worldToGrid(endPos)
        diff == <<endTile[1] - startTile[1], endTile[2] - startTile[2],
                  endTile[3] - startTile[3]>>
        dirs == StepWalls(diff)
    IN  IF ~isValidPosition(startTile[1], startTile[2], startTile[3]) THEN FALSE
        ELSE IF ~isValidPosition(endTile[1], endTile[2], endTile[3]) THEN FALSE
        ELSE IF startTile = endTile THEN hasGroundSupport(endTile)
        ELSE IF dirs = << >> THEN hasGroundSupport(endTile)
        ELSE IF ~WallsAllowStep(startTile, endTile, dirs) THEN FALSE
        ELSE hasGroundSupport(endTile)

canOccupy(startPos, endPos) ==
    LET startTile == worldToGrid(startPos)
        endTile == worldToGrid(endPos)
        diff == <<endTile[1] - startTile[1], endTile[2] - startTile[2],
                  endTile[3] - startTile[3]>>
        dirs == StepWalls(diff)
    IN  IF ~isValidPosition(startTile[1], startTile[2], startTile[3]) THEN FALSE
        ELSE IF ~isValidPosition(endTile[1], endTile[2], endTile[3]) THEN FALSE
        ELSE IF startTile = endTile THEN hasGroundSupport(endTile)
        ELSE IF diff[3] # 0 THEN FALSE
        ELSE IF Abs(diff[1]) + Abs(diff[2]) > 1 THEN FALSE
        ELSE IF dirs = << >> THEN hasGroundSupport(endTile)
        ELSE IF ~WallsAllowStep(startTile, endTile, dirs) THEN FALSE
        ELSE hasGroundSupport(endTile)


-----------------------------------------------------------------------------
(* LevelSerialization.cpp: the level file as lines of tokens *)

\* A token of a line.  eq: the token contains '='.  key: the text before '='.
\* The text after '=' is word[:tex] for tile properties, lo-hi for a fill
\* range, a number for rotation=, num x num2 for size=, tex for texture=.
\* ok: the numbers of the value parse (parseInt / parseFloat succeed).
Tok(key, word, tex) ==
    [eq |-> TRUE, key |-> key, word |-> word, tex |-> tex, ok |-> TRUE,
     lo |-> 0, hi |-> 0, num |-> 0, num2 |-> 0]

JunkTok == [Tok("", "junk", "") EXCEPT !.eq = FALSE]

RangeTok(key, lo, hi) == [Tok(key, "", "") EXCEPT !.lo = lo, !.hi = hi]

BadRangeTok(key) == [Tok(key, "", "") EXCEPT !.ok = FALSE]

NumTok(key, num) == [Tok(key, "", "") EXCEPT !.num = num]

BadNumTok(key) == [Tok(key, "", "") EXCEPT !.ok = FALSE]

SizeTok(key, width, length) == [Tok(key, "", "") EXCEPT !.num = width, !.num2 = length]

\* A line.  cmd: the first token, lower-cased.  ok: the positional numbers
\* after it could be read.
Line(cmd) ==
    [cmd |-> cmd, ok |-> TRUE, coords |-> <<0, 0, 0>>, value |-> 0,
     alias |-> "", path |-> "", tokens |-> << >>]

GridLine(w, h, d) == [Line("grid") EXCEPT !.coords = <<w, h, d>>]

BadGridLine == [Line("grid") EXCEPT !.ok = FALSE]

TileSizeLine(value) == [Line("tile_size") EXCEPT !.value = value]

BadTileSizeLine == [Line("tile_size") EXCEPT !.ok = FALSE]

TextureLine(alias, path) == [Line("texture") EXCEPT !.alias = alias, !.path = path]

TileLine(x, y, z, tokens) == [Line("tile") EXCEPT !.coords = <<x, y, z>>, !.tokens = tokens]

BadTileLine(tokens) == [Line("tile") EXCEPT !.ok = FALSE, !.tokens = tokens]

FillLine(tokens) == [Line("fill") EXCEPT !.tokens = tokens]

VehicleLine(x, y, z, tokens) ==
    [Line("vehicle") EXCEPT !.coords = <<x, y, z>>, !.tokens = tokens]

BadVehicleLine == [Line("vehicle") EXCEPT !.ok = FALSE]

CommentLine == Line("")

UnknownLine == Line("spawn")

-----------------------------------------------------------------------------
(* LevelSerialization.cpp: loadLevel *)

resolveTexturePath(aliases, identifier) ==
    IF identifier \in DOMAIN aliases THEN aliases[identifier] ELSE identifier

\* aliasMap[alias] = path
SetAlias(aliases, alias, path) ==
    [a \in DOMAIN aliases \cup {alias} |-> IF a = alias THEN path ELSE aliases[a]]

\* logParseError / logParseWarning: the line number of every message, in order
Log(seq, lineNumber) == Append(seq, lineNumber)

RECURSIVE LogTimes(_, _, _)
LogTimes(seq, lineNumber, times) ==
    IF times <= 0 THEN seq ELSE LogTimes(Append(seq, lineNumber), lineNumber, times - 1)

Pass1Line_FirstWins(line, lineNumber, acc) ==
    IF line.cmd = "grid" THEN
        IF ~line.ok THEN [acc EXCEPT !.errors = Log(@, lineNumber)]
        ELSE IF acc.gridSpecified THEN acc
        ELSE [acc EXCEPT !.parsedGrid = line.coords, !.gridSpecified = TRUE]
    ELSE IF line.cmd \in {"tile_size", "tilesize"} THEN
        IF ~line.ok \/ line.value <= 0 THEN [acc EXCEPT !.errors = Log(@, lineNumber)]
        ELSE [acc EXCEPT !.parsedTileSize = line.value, !.tileSizeSpecified = TRUE]
    ELSE IF line.cmd \in {"texture", "alias"} THEN
        IF line.alias = "" \/ line.path = ""
        THEN [acc EXCEPT !.errors = Log(@, lineNumber)]
        ELSE [acc EXCEPT !.aliasMap = SetAlias(@, line.alias, line.path)]
    ELSE acc

\* the first pass over one line: grid, tile_size, texture / alias
Pass1Line(line, lineNumber, acc) ==
    IF line.cmd = "grid" THEN
        IF ~line.ok THEN [acc EXCEPT !.errors = Log(@, lineNumber)]
        ELSE [acc EXCEPT !.parsedGrid = line.coords, !.gridSpecified = TRUE]
    ELSE IF line.cmd \in {"tile_size", "tilesize"} THEN
        IF ~line.ok \/ line.value <= 0 THEN [acc EXCEPT !.errors = Log(@, lineNumber)]
        ELSE [acc EXCEPT !.parsedTileSize = line.value, !.tileSizeSpecified = TRUE]
    ELSE IF line.cmd \in {"texture", "alias"} THEN
        IF line.alias = "" \/ line.path = ""
        THEN [acc EXCEPT !.errors = Log(@, lineNumber)]
        ELSE [acc EXCEPT !.aliasMap = SetAlias(@, line.alias, line.path)]
    ELSE acc

RECURSIVE Pass1(_, _, _)
Pass1(lines, idx, acc) ==
    IF idx > Len(lines) THEN acc
    ELSE Pass1(lines, idx + 1, Pass1Line(lines[idx], idx, acc))

WallConfig == [specified |-> FALSE, walkable |-> TRUE, textureId |-> ""]

TileConfig ==
    [topSpecified |-> FALSE, topSolid |-> FALSE, topTextureId |-> "",
     carSpecified |-> FALSE, carDirection |-> "None",
     walls |-> [d \in WallDirections |-> WallConfig]]

\* parseCarDirection: the enum for a value, "?" for an unknown one
parseCarDirection(value) ==
    CASE value \in {"", "none", "off"} -> "None"
      [] value = "north" -> "North"
      [] value = "south" -> "South"
      [] value = "east" -> "East"
      [] value = "west" -> "West"
      [] value \in {"northsouth", "north_south", "ns"} -> "NorthSouth"
      [] value \in {"eastwest", "east_west", "ew"} -> "EastWest"
      [] OTHER -> "?"

\* wallKeyToIndex: '_' and '-' removed, a leading "wall" dropped
wallKeyToIndex(key) ==
    CASE key \in {"n", "north", "wall_n", "wall_north", "walln", "wallnorth"} -> North
      [] key \in {"s", "south", "wall_s", "wall_south", "walls", "wallsouth"} -> South
      [] key \in {"e", "east", "wall_e", "wall_east", "walle", "walleast"} -> East
      [] key \in {"w", "west", "wall_w", "wall_west", "wallw", "wallwest"} -> West
      [] OTHER -> -1

\* parseTileProperty on one key=value token: <<ok, config>>
parseTileProperty(tok, config) ==
    IF tok.key = "top" THEN
        IF tok.word \in {"none", "off", "false"} /\ tok.tex = ""
        THEN <<TRUE, [config EXCEPT !.topSpecified = TRUE, !.topSolid = FALSE,
                                    !.topTextureId = ""]>>
        ELSE IF tok.word = "solid"
        THEN <<TRUE, [config EXCEPT !.topSpecified = TRUE, !.topSolid = TRUE,
                                    !.topTextureId = tok.tex]>>
        ELSE <<FALSE, [config EXCEPT !.topSpecified = TRUE]>>
    ELSE IF tok.key \in {"car", "cardirection", "traffic"} THEN
        IF parseCarDirection(tok.word) = "?"
        THEN <<FALSE, [config EXCEPT !.carSpecified = TRUE]>>
        ELSE <<TRUE, [config EXCEPT !.carSpecified = TRUE,
                                    !.carDirection = parseCarDirection(tok.word)]>>
    ELSE IF wallKeyToIndex(tok.key) >= 0 THEN
        IF tok.word \in {"walkable", "open", "passable"}
        THEN <<TRUE, [config EXCEPT !.walls[wallKeyToIndex(tok.key)] =
                        [specified |-> TRUE, walkable |-> TRUE, textureId |-> tok.tex]]>>
        ELSE IF tok.word \in {"solid", "blocked", "wall", "closed"}
        THEN <<TRUE, [config EXCEPT !.walls[wallKeyToIndex(tok.key)] =
                        [specified |-> TRUE, walkable |-> FALSE, textureId |-> tok.tex]]>>
        ELSE <<FALSE, config>>
    ELSE <<FALSE, config>>

\* an applyTileConfig whose top= keeps the car direction the tile has
applyTileConfig_KeepsCar(tile, config, aliases) ==
    LET afterTop ==
            IF ~config.topSpecified THEN tile
            ELSE IF config.topSolid
                 THEN setTopSurface(tile, TRUE,
                          resolveTexturePath(aliases, config.topTextureId),
                          tile.topSurface.carDirection)
                 ELSE setTopSurface(tile, FALSE, "", tile.topSurface.carDirection)
        afterCar ==
            IF config.carSpecified THEN setCarDirection(afterTop, config.carDirection)
            ELSE afterTop
    IN  [afterCar EXCEPT !.walls =
            [d \in WallDirections |->
                IF ~config.walls[d].specified THEN afterCar.walls[d]
                ELSE [walkable |-> config.walls[d].walkable,
                      texturePath |->
                          IF config.walls[d].textureId = "" THEN ""
                          ELSE resolveTexturePath(aliases, config.walls[d].textureId)]]]

\* applyTileConfig
applyTileConfig(tile, config, aliases) ==
    LET afterTop ==
            IF ~config.topSpecified THEN tile
            ELSE IF config.topSolid
                 THEN setTopSurface(tile, TRUE,
                          resolveTexturePath(aliases, config.topTextureId), "None")
                 ELSE setTopSurface(tile, FALSE, "", "None")
        afterCar ==
            IF config.carSpecified THEN setCarDirection(afterTop, config.carDirection)
            ELSE afterTop
    IN  [afterCar EXCEPT !.walls =
            [d \in WallDirections |->
                IF ~config.walls[d].specified THEN afterCar.walls[d]
                ELSE [walkable |-> config.walls[d].walkable,
                      texturePath |->
                          IF config.walls[d].textureId = "" THEN ""
                          ELSE resolveTexturePath(aliases, config.walls[d].textureId)]]]

\* the token loop of a tile line: every token without '=' and every property
\* that does not parse logs an error and clears parseOk
RECURSIVE TileTokens(_, _, _, _)
TileTokens(tokens, i, lineNumber, acc) ==
    IF i > Len(tokens) THEN acc
    ELSE IF ~tokens[i].eq
    THEN TileTokens(tokens, i + 1, lineNumber,
             [acc EXCEPT !.parseOk = FALSE, !.errors = Log(@, lineNumber)])
    ELSE LET r == parseTileProperty(tokens[i], acc.config)
         IN  TileTokens(tokens, i + 1, lineNumber,
                 IF r[1] THEN [acc EXCEPT !.config = r[2]]
                 ELSE [acc EXCEPT !.config = r[2], !.parseOk = FALSE,
                                  !.errors = Log(@, lineNumber)])

\* the tile command
TileCommand(line, lineNumber, size, aliases, st) ==
    IF ~line.ok THEN [st EXCEPT !.errors = Log(@, lineNumber)]
    ELSE LET p == TileTokens(line.tokens, 1, lineNumber,
                      [config |-> TileConfig, parseOk |-> TRUE, errors |-> st.errors])
             x == line.coords[1]
             y == line.coords[2]
             z == line.coords[3]
         IN  IF ~p.parseOk THEN [st EXCEPT !.errors = p.errors]
             ELSE IF ~ValidIn(size, x, y, z)
             THEN [st EXCEPT !.warnings = Log(@, lineNumber)]
             ELSE [st EXCEPT !.tiles[IndexIn(size, x, y, z) + 1] =
                                 applyTileConfig(@, p.config, aliases)]

\* the token loop of a fill line: ranges are taken out, the other key=value
\* tokens are kept as properties; a token without '=' or a bad range logs an
\* error and the loop goes on
RECURSIVE FillTokens(_, _, _, _)
FillTokens(tokens, i, lineNumber, acc) ==
    IF i > Len(tokens) THEN acc
    ELSE LET tok == tokens[i]
             range == IF tok.lo > tok.hi THEN <<tok.hi, tok.lo>> ELSE <<tok.lo, tok.hi>>
             next ==
                IF ~tok.eq THEN [acc EXCEPT !.errors = Log(@, lineNumber)]
                ELSE IF tok.key = "x" THEN
                    IF ~tok.ok THEN [acc EXCEPT !.errors = Log(@, lineNumber)]
                    ELSE [acc EXCEPT !.hasX = TRUE, !.x = range]
                ELSE IF tok.key = "y" THEN
                    IF ~tok.ok THEN [acc EXCEPT !.errors = Log(@, lineNumber)]
                    ELSE [acc EXCEPT !.hasY = TRUE, !.y = range]
                ELSE IF tok.key = "z" THEN
                    IF ~tok.ok THEN [acc EXCEPT !.errors = Log(@, lineNumber)]
                    ELSE [acc EXCEPT !.hasZ = TRUE, !.z = range]
                ELSE [acc EXCEPT !.properties = Append(@, tok)]
         IN  FillTokens(tokens, i + 1, lineNumber, next)

InBox(pos, xr, yr, zr) ==
    /\ xr[1] <= pos[1] /\ pos[1] <= xr[2]
    /\ yr[1] <= pos[2] /\ pos[2] <= yr[2]
    /\ zr[1] <= pos[3] /\ pos[3] <= zr[2]

\* the fill command
FillCommand(line, lineNumber, size, aliases, st) ==
    LET f == FillTokens(line.tokens, 1, lineNumber,
                 [hasX |-> FALSE, hasY |-> FALSE, hasZ |-> FALSE,
                  x |-> <<0, 0>>, y |-> <<0, 0>>, z |-> <<0, 0>>,
                  properties |-> << >>, errors |-> st.errors])
        p == TileTokens(f.properties, 1, lineNumber,
                 [config |-> TileConfig, parseOk |-> TRUE, errors |-> f.errors])
        boxCells == (f.x[2] - f.x[1] + 1) * (f.y[2] - f.y[1] + 1) * (f.z[2] - f.z[1] + 1)
        inside == {i \in DOMAIN st.tiles : InBox(PosOfIndex(size, i - 1), f.x, f.y, f.z)}
    IN  IF ~f.hasX \/ ~f.hasY \/ ~f.hasZ
        THEN [st EXCEPT !.errors = Log(f.errors, lineNumber)]
        ELSE IF ~p.parseOk THEN [st EXCEPT !.errors = p.errors]
        ELSE [st EXCEPT
                !.errors = p.errors,
                !.warnings = LogTimes(@, lineNumber, boxCells - Cardinality(inside)),
                !.tiles = [i \in DOMAIN st.tiles |->
                              IF i \in inside
                              THEN applyTileConfig(st.tiles[i], p.config, aliases)
                              ELSE st.tiles[i]]]

\* VehicleSpawnDefinition
NewSpawn(gridPos) ==
    [gridPosition |-> gridPos, rotationDegrees |-> 0, texturePath |-> "",
     size |-> <<1500, 3000>>]

\* the token loop of a vehicle line
RECURSIVE VehicleTokens(_, _, _, _, _)
VehicleTokens(tokens, i, lineNumber, aliases, acc) ==
    IF i > Len(tokens) THEN acc
    ELSE LET tok == tokens[i]
             bad == [acc EXCEPT !.parseOk = FALSE, !.errors = Log(@, lineNumber)]
             next ==
                IF ~tok.eq THEN bad
                ELSE IF tok.key \in {"rotation", "angle", "yaw"} THEN
                    IF ~tok.ok THEN bad
                    ELSE [acc EXCEPT !.spawn.rotationDegrees = tok.num]
                ELSE IF tok.key \in {"texture", "tex"} THEN
                    [acc EXCEPT !.spawn.texturePath = resolveTexturePath(aliases, tok.tex)]
                ELSE IF tok.key \in {"size", "dimensions"} THEN
                    IF ~tok.ok THEN bad
                    ELSE IF tok.num <= 0 \/ tok.num2 <= 0 THEN bad
                    ELSE [acc EXCEPT !.spawn.size = <<tok.num, tok.num2>>]
                ELSE bad
         IN  VehicleTokens(tokens, i + 1, lineNumber, aliases, next)

UpsertSpawn_AlwaysAppend(spawns, spawn) == Append(spawns, spawn)

\* std::find_if on gridPosition, then *existing = spawn or push_back
UpsertSpawn(spawns, spawn) ==
    IF \E k \in DOMAIN spawns : spawns[k].gridPosition = spawn.gridPosition
    THEN LET k == CHOOSE j \in DOMAIN spawns :
                      /\ spawns[j].gridPosition = spawn.gridPosition
                      /\ \A l \in DOMAIN spawns :
                            spawns[l].gridPosition = spawn.gridPosition => j <= l
         IN  [spawns EXCEPT ![k] = spawn]
    ELSE Append(spawns, spawn)

\* a vehicle command without the check of the tile's top surface
VehicleCommand_NoSupportCheck(line, lineNumber, size, aliases, st) ==
    IF ~line.ok THEN [st EXCEPT !.errors = Log(@, lineNumber)]
    ELSE LET v == VehicleTokens(line.tokens, 1, lineNumber, aliases,
                      [spawn |-> NewSpawn(line.coords), parseOk |-> TRUE,
                       errors |-> st.errors])
         IN  IF ~v.parseOk THEN [st EXCEPT !.errors = v.errors]
             ELSE IF ~ValidIn(size, line.coords[1], line.coords[2], line.coords[3])
             THEN [st EXCEPT !.errors = Log(v.errors, lineNumber)]
             ELSE [st EXCEPT !.spawns = UpsertSpawn(@, v.spawn)]

\* the vehicle command
VehicleCommand(line, lineNumber, size, aliases, st) ==
    IF ~line.ok THEN [st EXCEPT !.errors = Log(@, lineNumber)]
    ELSE LET v == VehicleTokens(line.tokens, 1, lineNumber, aliases,
                      [spawn |-> NewSpawn(line.coords), parseOk |-> TRUE,
                       errors |-> st.errors])
             x == line.coords[1]
             y == line.coords[2]
             z == line.coords[3]
         IN  IF ~v.parseOk THEN [st EXCEPT !.errors = v.errors]
             ELSE IF ~ValidIn(size, x, y, z)
             THEN [st EXCEPT !.errors = Log(v.errors, lineNumber)]
             ELSE IF ~isTopSolid(st.tiles[IndexIn(size, x, y, z) + 1])
             THEN [st EXCEPT !.errors = Log(v.errors, lineNumber)]
             ELSE [st EXCEPT !.spawns = UpsertSpawn(@, v.spawn)]

\* the second pass over one line: tile, fill, vehicle
Pass2Line(line, lineNumber, size, aliases, st) ==
    IF line.cmd = "tile" THEN TileCommand(line, lineNumber, size, aliases, st)
    ELSE IF line.cmd = "fill" THEN FillCommand(line, lineNumber, size, aliases, st)
    ELSE IF line.cmd = "vehicle" THEN VehicleCommand(line, lineNumber, size, aliases, st)
    ELSE st

RECURSIVE Pass2(_, _, _, _, _)
Pass2(lines, idx, size, aliases, st) ==
    IF idx > Len(lines) THEN st
    ELSE Pass2(lines, idx + 1, size, aliases,
               Pass2Line(lines[idx], idx, size, aliases, st))

\* a level file: whether it can be opened, and its lines
File(lines) == [openable |-> TRUE, lines |-> lines]

MissingFile == [openable |-> FALSE, lines |-> << >>]

\* the grid and the level data as loadLevel and saveLevel see them
World(gridSize, tileSize, tiles, aliases, spawns) ==
    [gridSize |-> gridSize, tileSize |-> tileSize, tiles |-> tiles,
     aliases |-> aliases, spawns |-> spawns]

CurrentWorld == World(m_gridSize, m_tileSize, m_tiles, m_textureAliases, vehicleSpawns)

loadLevel_KeepsContent(file, w) ==
    IF ~file.openable
    THEN [world |-> w, result |-> FALSE, errors |-> << >>, warnings |-> << >>]
    ELSE LET p1 == Pass1(file.lines, 1,
                       [aliasMap |-> w.aliases, parsedGrid |-> w.gridSize,
                        parsedTileSize |-> w.tileSize, gridSpecified |-> FALSE,
                        tileSizeSpecified |-> FALSE, errors |-> << >>])
             tileSize == IF p1.tileSizeSpecified THEN p1.parsedTileSize ELSE w.tileSize
             gridSize == IF p1.gridSpecified THEN p1.parsedGrid ELSE w.gridSize
         IN  IF ~SizeIsValid(gridSize)
             THEN [world |-> World(gridSize, tileSize, w.tiles, p1.aliasMap, << >>),
                   result |-> FALSE, errors |-> p1.errors, warnings |-> << >>]
             ELSE LET p2 == Pass2(file.lines, 1, gridSize, p1.aliasMap,
                                [tiles |-> IF p1.gridSpecified THEN FreshTiles(gridSize)
                                           ELSE w.tiles,
                                 spawns |-> << >>,
                                 errors |-> p1.errors, warnings |-> << >>])
                  IN  [world |-> World(gridSize, tileSize, p2.tiles, p1.aliasMap,
                                       p2.spawns),
                       result |-> TRUE, errors |-> p2.errors, warnings |-> p2.warnings]

\* loadLevel(filePath, grid, data): the world it leaves, what it returns and
\* the line numbers of the errors and warnings it logs
loadLevel(file, w) ==
    IF ~file.openable
    THEN [world |-> w, result |-> FALSE, errors |-> << >>, warnings |-> << >>]
    ELSE LET p1 == Pass1(file.lines, 1,
                       [aliasMap |-> w.aliases, parsedGrid |-> w.gridSize,
                        parsedTileSize |-> w.tileSize, gridSpecified |-> FALSE,
                        tileSizeSpecified |-> FALSE, errors |-> << >>])
             tileSize == IF p1.tileSizeSpecified THEN p1.parsedTileSize ELSE w.tileSize
             gridSize == IF p1.gridSpecified THEN p1.parsedGrid ELSE w.gridSize
         IN  IF ~SizeIsValid(gridSize)
             THEN [world |-> World(gridSize, tileSize, w.tiles, p1.aliasMap, << >>),
                   result |-> FALSE, errors |-> p1.errors, warnings |-> << >>]
             ELSE LET p2 == Pass2(file.lines, 1, gridSize, p1.aliasMap,
                                [tiles |-> FreshTiles(gridSize), spawns |-> << >>,
                                 errors |-> p1.errors, warnings |-> << >>])
                  IN  [world |-> World(gridSize, tileSize, p2.tiles, p1.aliasMap,
                                       p2.spawns),
                       result |-> TRUE, errors |-> p2.errors, warnings |-> p2.warnings]

-----------------------------------------------------------------------------
(* LevelSerialization.cpp: saveLevel *)

\* the alias names that occur in the model, in the order std::sort puts them
AliasOrder == <<"a", "b", "car", "grass", "road", "wall">>

\* aliasEntries after the sort: the names with a non-empty path
aliasEntries(aliases) ==
    SelectSeq(AliasOrder, LAMBDA a : a \in DOMAIN aliases /\ aliases[a] # "")

\* pathToAlias[path]: the last sorted alias that names the path
pathToAlias(aliases, path) ==
    LET entries == aliasEntries(aliases)
        hits == {k \in DOMAIN entries : aliases[entries[k]] = path}
    IN  IF hits = {} THEN ""
        ELSE entries[CHOOSE k \in hits : \A j \in hits : j <= k]

identifierForSave(aliases, value) ==
    IF value = "" THEN ""
    ELSE IF value \in DOMAIN aliases THEN value
    ELSE IF pathToAlias(aliases, value) # "" THEN pathToAlias(aliases, value)
    ELSE value

\* the power of ten that leaves n with at most six digits
RECURSIVE SigScale(_, _)
SigScale(n, k) == IF n \div k < 1000000 THEN k ELSE SigScale(n, k * 10)

\* operator<<(float) at the default precision: six significant digits
FormatFloat6(n) ==
    LET k == SigScale(n, 1)
    IN  ((n + k \div 2) \div k) * k

\* formatFloat: std::fixed, two decimals
formatFloat(n) ==
    IF n >= 0 THEN ((n + 5) \div 10) * 10 ELSE -(((-n + 5) \div 10) * 10)

carDirectionToString(dir) ==
    CASE dir = "North" -> "north"
      [] dir = "South" -> "south"
      [] dir = "East" -> "east"
      [] dir = "West" -> "west"
      [] dir = "NorthSouth" -> "north_south"
      [] dir = "EastWest" -> "east_west"
      [] OTHER -> "none"

wallKey(dir) ==
    CASE dir = North -> "north"
      [] dir = South -> "south"
      [] dir = East -> "east"
      [] dir = West -> "west"

\* the properties saveLevel collects for one tile
TileProperties(tile, aliases) ==
    LET top == tile.topSurface
        topProp == IF top.solid
                   THEN <<Tok("top", "solid", identifierForSave(aliases, top.texturePath))>>
                   ELSE << >>
        carProp == IF top.carDirection # "None"
                   THEN <<Tok("car", carDirectionToString(top.carDirection), "")>>
                   ELSE << >>
        wallProp(dir) ==
            LET wall == tile.walls[dir]
            IN  IF wall.walkable /\ wall.texturePath = "" THEN << >>
                ELSE <<Tok(wallKey(dir), IF wall.walkable THEN "walkable" ELSE "solid",
                           identifierForSave(aliases, wall.texturePath))>>
    IN  topProp \o carProp \o wallProp(North) \o wallProp(South)
            \o wallProp(East) \o wallProp(West)

\* the vehicle line written for one spawn
SpawnLine(spawn, aliases) ==
    VehicleLine(spawn.gridPosition[1], spawn.gridPosition[2], spawn.gridPosition[3],
        <<NumTok("rotation", formatFloat(spawn.rotationDegrees))>>
        \o (IF spawn.texturePath # ""
            THEN <<Tok("texture", "", identifierForSave(aliases, spawn.texturePath))>>
            ELSE << >>)
        \o <<SizeTok("size", formatFloat(spawn.size[1]), formatFloat(spawn.size[2]))>>)

\* saveLevel(filePath, grid, data): the file it writes
saveLevel(w) ==
    LET entries == aliasEntries(w.aliases)
        total == IF SizeIsValid(w.gridSize)
                 THEN w.gridSize[1] * w.gridSize[2] * w.gridSize[3] ELSE 0
        perTile == [i \in 1..total |->
                       TileLine(PosOfIndex(w.gridSize, i - 1)[1],
                                PosOfIndex(w.gridSize, i - 1)[2],
                                PosOfIndex(w.gridSize, i - 1)[3],
                                TileProperties(w.tiles[i], w.aliases))]
    IN  File(<<CommentLine,
               GridLine(w.gridSize[1], w.gridSize[2], w.gridSize[3]),
               TileSizeLine(FormatFloat6(w.tileSize))>>
             \o [k \in DOMAIN entries |-> TextureLine(entries[k], w.aliases[entries[k]])]
             \o [k \in DOMAIN w.spawns |-> SpawnLine(w.spawns[k], w.aliases)]
             \o SelectSeq(perTile, LAMBDA l : l.tokens # << >>))

-----------------------------------------------------------------------------
(* TileGridEditor.cpp: tile mutations at the cursor *)

ReplaceTile(x, y, z, tile) == [m_tiles EXCEPT ![getIndex(x, y, z) + 1] = tile]

\* TileGridEditor::toggleWall
toggledWall(tile, direction) ==
    LET wall == tile.walls[direction]
        newWalkable == ~wall.walkable
        texturePath == IF newWalkable THEN ""
                       ELSE IF wall.texturePath = "" THEN "assets/textures/wall.png"
                       ELSE wall.texturePath
    IN  setWall(tile, direction, newWalkable, texturePath)

\* TileGridEditor::applyBrush for the three tile brushes
brushedTile(tile, brush, roadDirection) ==
    CASE brush = "Grass" ->
            setCarDirection(
                setTopSurface(tile, TRUE, "assets/textures/grass.png", "None"), "None")
      [] brush = "Road" ->
            setCarDirection(
                setTopSurface(tile, TRUE, "assets/textures/road.png", roadDirection),
                roadDirection)
      [] brush = "Empty" ->
            setCarDirection(setTopSurface(tile, FALSE, "", "None"), "None")

NoQuery == [op |-> "none"]

\* the operations that read the grid and change nothing: a behaviour ends with one
Queries == {"canOccupy", "getTile"}

toggleWall(cursor, direction) ==
    /\ initialized
    /\ lastOp \notin Queries
    /\ edits < MaxEdits
    /\ IsLiveTile(getTile(cursor[1], cursor[2], cursor[3]))
    /\ m_tiles' = ReplaceTile(cursor[1], cursor[2], cursor[3],
                      toggledWall(getTile(cursor[1], cursor[2], cursor[3]), direction))
    /\ edits' = edits + 1
    /\ lastOp' = "toggleWall"
    /\ q' = NoQuery
    /\ UNCHANGED otherVars /\ UNCHANGED <<constructed, initialized, m_gridSize, m_tileSize,
                   m_textureAliases, vehicleSpawns, m_vehicleSpawns>>

applyBrush(cursor, brush, roadDirection) ==
    /\ initialized
    /\ lastOp \notin Queries
    /\ edits < MaxEdits
    /\ IsLiveTile(getTile(cursor[1], cursor[2], cursor[3]))
    /\ m_tiles' = ReplaceTile(cursor[1], cursor[2], cursor[3],
                      brushedTile(getTile(cursor[1], cursor[2], cursor[3]),
                                  brush, roadDirection))
    /\ edits' = edits + 1
    /\ lastOp' = "applyBrush"
    /\ q' = NoQuery
    /\ UNCHANGED otherVars /\ UNCHANGED <<constructed, initialized, m_gridSize, m_tileSize,
                   m_textureAliases, vehicleSpawns, m_vehicleSpawns>>

-----------------------------------------------------------------------------
(* The occupancy query applied to a grid under edit *)

Cells(size) ==
    {<<x, y, z>> : x \in 0..(size[1] - 1), y \in 0..(size[2] - 1), z \in 0..(size[3] - 1)}

\* cursor positions: every cell of the grid
Cursors == Cells(m_gridSize)

\* a world position in the far corner of the cell whose centre is gridToWorld(c)
CornerOf(c) ==
    LET w == gridToWorld(c)
    IN  <<w[1] - (m_tileSize \div 2), w[2] + (m_tileSize \div 2) - 1,
          w[3] + m_tileSize - 1>>

\* cells a queried move starts in: two opposite columns of the grid, and one
\* cell outside it
QueryStartCells ==
    {<<0, 0, z>> : z \in 0..(m_gridSize[3] - 1)}
        \cup {<<m_gridSize[1] - 1, m_gridSize[2] - 1, z>> : z \in 0..(m_gridSize[3] - 1)}
        \cup {<<-1, 0, 1>>}

QueryStarts == {gridToWorld(c) : c \in QueryStartCells}

\* where a queried move ends: the centre of any cell, the corner of the cell it
\* starts in, or outside the grid
QueryEnds(startPos) ==
    {gridToWorld(c) : c \in Cells(m_gridSize)}
        \cup {CornerOf(worldToGrid(startPos))}
        \cup {gridToWorld(<<m_gridSize[1], 0, 1>>)}

\* canOccupy reads the grid and changes nothing: a behaviour ends with the query
CanOccupyQuery(startPos, endPos) ==
    /\ initialized
    /\ lastOp \notin Queries
    /\ lastOp' = "canOccupy"
    /\ q' = [op |-> "canOccupy", startPos |-> startPos, endPos |-> endPos,
             result |-> canOccupy(startPos, endPos)]
    /\ UNCHANGED otherVars /\ UNCHANGED <<constructed, initialized, m_gridSize, m_tileSize, m_tiles,
                   m_textureAliases, vehicleSpawns, m_vehicleSpawns, edits>>

\* a grid whose bottom layer has been painted solid (fill z=0 top=solid:grass)
FloorTiles(size) ==
    [i \in 1..(size[1] * size[2] * size[3]) |->
        IF PosOfIndex(size, i - 1)[3] = 0
        THEN setTopSurface(NewTile(PosOfIndex(size, i - 1)), TRUE,
                           "assets/textures/grass.png", "None")
        ELSE NewTile(PosOfIndex(size, i - 1))]

QueryGrids ==
    {[size |-> <<2, 2, 2>>, tiles |-> FloorTiles(<<2, 2, 2>>)],
     [size |-> <<3, 1, 2>>, tiles |-> FloorTiles(<<3, 1, 2>>)]}

InitQuery ==
    /\ constructed = TRUE
    /\ initialized = TRUE
    /\ \E g \in QueryGrids : m_gridSize = g.size /\ m_tiles = g.tiles
    /\ m_tileSize = DefaultTileSize
    /\ m_textureAliases = DefaultAliases
    /\ vehicleSpawns = << >>
    /\ m_vehicleSpawns = << >>
    /\ edits = 0
    /\ lastOp = "init"
    /\ q = NoQuery
    /\ InitOther

NextQuery ==
    \/ \E c \in Cursors, d \in WallDirections : toggleWall(c, d)
    \/ \E c \in Cursors, b \in {"Grass", "Empty"} : applyBrush(c, b, "None")
    \/ \E s \in QueryStarts : \E e \in QueryEnds(s) : CanOccupyQuery(s, e)

SpecQuery == InitQuery /\ [][NextQuery]_vars


-----------------------------------------------------------------------------
(* Startup, level load, editing, save and reload *)

\* the size the grid is constructed with (Scene::initialize passes 16x16x4)
ConstructedSize == <<2, 1, 2>>

NoAliases == [a \in {} |-> ""]

\* TileGrid::initialize
Initialize ==
    /\ constructed
    /\ ~initialized
    /\ initialized' = TRUE
    /\ m_textureAliases' = DefaultAliases
    /\ m_tiles' = IF SizeIsValid(m_gridSize) THEN FreshTiles(m_gridSize) ELSE m_tiles
    /\ m_vehicleSpawns' = IF SizeIsValid(m_gridSize) THEN << >> ELSE m_vehicleSpawns
    /\ lastOp' = "initialize"
    /\ q' = [op |-> "initialize", result |-> SizeIsValid(m_gridSize)]
    /\ UNCHANGED otherVars /\ UNCHANGED <<constructed, m_gridSize, m_tileSize, vehicleSpawns, edits>>

\* the assignments loadLevel(file, grid, data) makes
LoadInto(file, op, saved) ==
    LET r == loadLevel(file, CurrentWorld)
    IN  /\ m_gridSize' = r.world.gridSize
        /\ m_tileSize' = r.world.tileSize
        /\ m_tiles' = r.world.tiles
        /\ m_textureAliases' = r.world.aliases
        /\ vehicleSpawns' = r.world.spawns
        /\ m_vehicleSpawns' = IF file.openable /\ SizeIsValid(r.world.gridSize)
                              THEN << >> ELSE m_vehicleSpawns
        /\ lastOp' = op
        /\ q' = [op |-> op, file |-> file, pre |-> CurrentWorld, saved |-> saved,
                 result |-> r.result, errors |-> r.errors, warnings |-> r.warnings]
        /\ UNCHANGED otherVars /\ UNCHANGED <<constructed, initialized, edits>>

\* Scene::createTestScene: the level file is loaded once, right after initialize
LoadLevel(file) ==
    /\ initialized
    /\ lastOp = "initialize"
    /\ LoadInto(file, "loadLevel", CurrentWorld)

\* TileGridEditor::saveLevel: the grid and the level data are written out
SaveLevel ==
    /\ initialized
    /\ lastOp \in {"loadLevel", "toggleWall", "applyBrush"}
    /\ lastOp' = "saveLevel"
    /\ q' = [op |-> "saveLevel", file |-> saveLevel(CurrentWorld)]
    /\ UNCHANGED otherVars /\ UNCHANGED <<constructed, initialized, m_gridSize, m_tileSize, m_tiles,
                   m_textureAliases, vehicleSpawns, m_vehicleSpawns, edits>>

\* loadLevel of the file saveLevel has just written
LoadSaved ==
    /\ initialized
    /\ lastOp = "saveLevel"
    /\ LoadInto(q.file, "loadSaved", CurrentWorld)

\* getTile(x, y, z) called by a client of the grid.  Reading m_tiles[index]
\* past the end of the vector is undefined: the call may return null, return
\* a pointer to no tile, or crash.
GetTileQuery(pos) ==
    /\ constructed
    /\ lastOp \notin Queries
    /\ lastOp' = "getTile"
    /\ \E result \in (IF getTile(pos[1], pos[2], pos[3]) = DanglingTile
                      THEN {NullTile, DanglingTile, [crashed |-> TRUE]}
                      ELSE {getTile(pos[1], pos[2], pos[3])}) :
          q' = [op |-> "getTile", pos |-> pos,
                valid |-> isValidPosition(pos[1], pos[2], pos[3]),
                overrun |-> getTile(pos[1], pos[2], pos[3]) = DanglingTile,
                result |-> result]
    /\ UNCHANGED otherVars /\ UNCHANGED <<constructed, initialized, m_gridSize, m_tileSize, m_tiles,
                   m_textureAliases, vehicleSpawns, m_vehicleSpawns, edits>>

\* positions getTile is asked for: inside and outside the constructed size
ProbePositions == {<<0, 0, 0>>, <<1, 0, 1>>, <<2, 0, 0>>, <<0, -1, 0>>, <<0, 0, 2>>}

\* the lines level files are made of
LineSet ==
    {GridLine(1, 1, 2),
     GridLine(0, 1, 1),
     TileSizeLine(1234567),
     TextureLine("a", "road"),
     TextureLine("b", "assets/textures/road.png"),
     TextureLine("a", "assets/textures/wall.png"),
     TileLine(0, 0, 0, <<Tok("top", "solid", "a"), Tok("car", "north_south", "")>>),
     TileLine(0, 0, 0, <<JunkTok, Tok("north", "solid", "wall")>>),
     TileLine(0, 0, 2, <<Tok("east", "walkable", "grass")>>),
     FillLine(<<RangeTok("x", 0, 0), RangeTok("y", 0, 0), RangeTok("z", 0, 0),
                JunkTok, Tok("top", "solid", "road")>>),
     FillLine(<<RangeTok("x", 1, 0), RangeTok("y", 0, 0), RangeTok("z", 0, 2),
                Tok("south", "blocked", "")>>),
     FillLine(<<RangeTok("x", 0, 1), BadRangeTok("y"), Tok("top", "solid", "")>>),
     FillLine(<<RangeTok("x", 0, 1), RangeTok("y", 0, 0), BadRangeTok("y"),
                RangeTok("z", 0, 0), Tok("west", "blocked", "")>>),
     VehicleLine(0, 0, 0, <<NumTok("rotation", 45125), Tok("texture", "", "car"),
                            SizeTok("size", 1500, 3000)>>),
     VehicleLine(0, 0, 1, <<BadNumTok("angle"), Tok("colour", "red", "")>>),
     UnknownLine}

LevelFiles ==
    {MissingFile} \cup
        {File(lines) : lines \in UNION {[1..n -> LineSet] : n \in 0..MaxLines}}

InitLevel ==
    /\ constructed = TRUE
    /\ initialized = FALSE
    /\ m_gridSize = ConstructedSize
    /\ m_tileSize = DefaultTileSize
    /\ m_tiles = << >>
    /\ m_textureAliases = NoAliases
    /\ vehicleSpawns = << >>
    /\ m_vehicleSpawns = << >>
    /\ edits = 0
    /\ lastOp = "construct"
    /\ q = NoQuery
    /\ InitOther

NextLevel ==
    \/ Initialize
    \/ \E file \in LevelFiles : LoadLevel(file)
    \/ \E d \in {North, West} : toggleWall(<<0, 0, 0>>, d)
    \/ \E b \in {"Road", "Empty"} : applyBrush(<<0, 0, 0>>, b, "EastWest")
    \/ SaveLevel
    \/ LoadSaved
    \/ \E pos \in ProbePositions : GetTileQuery(pos)

SpecLevel == InitLevel /\ [][NextLevel]_vars

-----------------------------------------------------------------------------
(* An editing session: vehicle brush, spawn registry, resize, reload *)

\* normalizeDegrees: std::fmod keeps the sign of the value
normalizeDegrees(value) ==
    LET normalized == IF value >= 0 THEN value % 360000 ELSE -((-value) % 360000)
    IN  IF normalized < 0 THEN normalized + 360000 ELSE normalized

Max(a, b) == IF a >= b THEN a ELSE b

evaluateVehiclePlacement_BoundsOnly(position) ==
    IF ~isValidPosition(position[1], position[2], position[3]) THEN "OutOfBounds"
    ELSE "Valid"

\* TileGridEditor::evaluateVehiclePlacement
evaluateVehiclePlacement(position) ==
    IF ~isValidPosition(position[1], position[2], position[3]) THEN "OutOfBounds"
    ELSE LET tile == getTile(position[1], position[2], position[3])
         IN  IF ~IsLiveTile(tile) \/ ~isTopSolid(tile) THEN "MissingSupport"
             ELSE "Valid"

\* std::find_if on gridPosition, then erase
EraseSpawnAt(spawns, gridPos) ==
    IF \E k \in DOMAIN spawns : spawns[k].gridPosition = gridPos
    THEN LET k == CHOOSE j \in DOMAIN spawns :
                      /\ spawns[j].gridPosition = gridPos
                      /\ \A l \in DOMAIN spawns : spawns[l].gridPosition = gridPos => j <= l
         IN  [i \in 1..(Len(spawns) - 1) |-> IF i < k THEN spawns[i] ELSE spawns[i + 1]]
    ELSE spawns

\* the spawn applyVehicleBrush builds from the brush settings
BrushSpawn(cursor, brush) ==
    [gridPosition |-> cursor,
     rotationDegrees |-> normalizeDegrees(brush.rotationDegrees),
     texturePath |-> IF brush.texture = "" THEN "assets/textures/car.png"
                     ELSE brush.texture,
     size |-> <<Max(100, brush.size[1]), Max(100, brush.size[2])>>]

\* TileGridEditor::applyVehicleBrush at the cursor, in remove or place mode
applyVehicleBrush(cursor, removeMode, brush) ==
    /\ initialized
    /\ lastOp \notin Queries
    /\ edits < MaxEdits
    /\ vehicleSpawns' =
          IF removeMode THEN EraseSpawnAt(vehicleSpawns, cursor)
          ELSE IF evaluateVehiclePlacement(cursor) # "Valid" THEN vehicleSpawns
          ELSE UpsertSpawn(vehicleSpawns, BrushSpawn(cursor, brush))
    /\ edits' = edits + 1
    /\ lastOp' = "applyVehicleBrush"
    /\ q' = [op |-> "applyVehicleBrush", cursor |-> cursor, removeMode |-> removeMode,
             brush |-> brush, pre |-> vehicleSpawns,
             solid |-> IsLiveTile(getTile(cursor[1], cursor[2], cursor[3]))
                          /\ isTopSolid(getTile(cursor[1], cursor[2], cursor[3]))]
    /\ UNCHANGED otherVars /\ UNCHANGED <<constructed, initialized, m_gridSize, m_tileSize, m_tiles,
                   m_textureAliases, m_vehicleSpawns>>

\* while (rotationDegrees < 0.0f) rotationDegrees += 360.0f
RECURSIVE WhileNegative(_)
WhileNegative(rotation) ==
    IF rotation < 0 THEN WhileNegative(rotation + 360000) ELSE rotation

\* while (rotationDegrees >= 360.0f) rotationDegrees -= 360.0f
RECURSIVE WhileTooLarge(_)
WhileTooLarge(rotation) ==
    IF rotation >= 360000 THEN WhileTooLarge(rotation - 360000) ELSE rotation

\* the record addOrUpdateVehicleSpawn stores for a request
NormalizedSpawn(spawn) ==
    [gridPosition |-> spawn.gridPosition,
     rotationDegrees |-> WhileTooLarge(WhileNegative(spawn.rotationDegrees)),
     texturePath |-> IF spawn.texturePath = ""
                     THEN resolveTexturePath(m_textureAliases, "car")
                     ELSE spawn.texturePath,
     size |-> <<IF spawn.size[1] <= 0 THEN 1500 ELSE spawn.size[1],
                IF spawn.size[2] <= 0 THEN 3000 ELSE spawn.size[2]>>]

\* TileGrid::addOrUpdateVehicleSpawn
addOrUpdateVehicleSpawn(spawn) ==
    /\ initialized
    /\ lastOp \notin Queries
    /\ edits < MaxEdits
    /\ m_vehicleSpawns' =
          IF ~isValidPosition(spawn.gridPosition[1], spawn.gridPosition[2],
                              spawn.gridPosition[3])
          THEN m_vehicleSpawns
          ELSE UpsertSpawn(m_vehicleSpawns, NormalizedSpawn(spawn))
    /\ edits' = edits + 1
    /\ lastOp' = "addOrUpdateVehicleSpawn"
    /\ q' = [op |-> "addOrUpdateVehicleSpawn", spawn |-> spawn, pre |-> m_vehicleSpawns]
    /\ UNCHANGED otherVars /\ UNCHANGED <<constructed, initialized, m_gridSize, m_tileSize, m_tiles,
                   m_textureAliases, vehicleSpawns>>

copyFrom_TopOnly(tile, other) ==
    [tile EXCEPT !.topSurface = other.topSurface]

\* Tile::copyFrom: the top surface and the four walls, not the position
copyFrom(tile, other) ==
    [tile EXCEPT !.topSurface = other.topSurface, !.walls = other.walls]

\* the tile array resize builds: fresh tiles, the overlap copied from the old
ResizedTiles(oldSize, oldTiles, newSize) ==
    [i \in 1..(newSize[1] * newSize[2] * newSize[3]) |->
        LET pos == PosOfIndex(newSize, i - 1)
        IN  IF ValidIn(oldSize, pos[1], pos[2], pos[3])
            THEN copyFrom(NewTile(pos),
                          oldTiles[IndexIn(oldSize, pos[1], pos[2], pos[3]) + 1])
            ELSE NewTile(pos)]

\* TileGrid::resize(newSize), called by TileGridEditor::drawGridControls
resize(newSize) ==
    /\ initialized
    /\ lastOp \notin Queries
    /\ edits < MaxEdits
    /\ IF SizeIsValid(newSize)
       THEN /\ m_gridSize' = newSize
            /\ m_tiles' = ResizedTiles(m_gridSize, m_tiles, newSize)
       ELSE UNCHANGED <<m_gridSize, m_tiles>>
    /\ edits' = edits + 1
    /\ lastOp' = "resize"
    /\ q' = [op |-> "resize", newSize |-> newSize, pre |-> CurrentWorld,
             result |-> SizeIsValid(newSize)]
    /\ UNCHANGED otherVars /\ UNCHANGED <<constructed, initialized, m_tileSize, m_textureAliases,
                   vehicleSpawns, m_vehicleSpawns>>

\* loadLevel called on a grid that has been edited: the session ends with it
ReloadLevel(file) ==
    /\ initialized
    /\ lastOp \notin Queries
    /\ lastOp # "reloadLevel"
    /\ LoadInto(file, "reloadLevel", CurrentWorld)

\* the brush settings tried: rotation, size and texture of the vehicle panel
BrushSettings ==
    {[rotationDegrees |-> 450000, size |-> <<0, 2000>>, texture |-> ""],
     [rotationDegrees |-> -90000, size |-> <<1500, 3000>>,
      texture |-> "assets/textures/car.png"]}

\* requests made of the grid's own spawn registry
RegistryRequests ==
    {[gridPosition |-> <<0, 0, 1>>, rotationDegrees |-> 450000, texturePath |-> "",
      size |-> <<0, -1000>>],
     [gridPosition |-> <<0, 0, 1>>, rotationDegrees |-> -90000,
      texturePath |-> "assets/textures/car.png", size |-> <<2000, 4000>>],
     [gridPosition |-> <<0, 0, 2>>, rotationDegrees |-> 0, texturePath |-> "",
      size |-> <<1500, 3000>>]}

\* the lines files reloaded during a session are made of
SessionLineSet ==
    {TileLine(1, 0, 0, <<Tok("north", "solid", "wall")>>),
     VehicleLine(0, 0, 0, <<NumTok("rotation", 450000)>>),
     VehicleLine(0, 0, 0, <<NumTok("yaw", 90000), SizeTok("size", 2000, 4000),
                            Tok("texture", "", "car")>>)}

\* a file starts with or without a line that lays a solid floor
SessionHeaders ==
    {<< >>,
     <<FillLine(<<RangeTok("x", 0, 1), RangeTok("y", 0, 0), RangeTok("z", 0, 0),
                  Tok("top", "solid", "grass")>>)>>}

SessionFiles ==
    {MissingFile} \cup
        {File(header \o lines) :
            header \in SessionHeaders,
            lines \in UNION {[1..n -> SessionLineSet] : n \in 0..MaxLines}}

InitSession ==
    /\ constructed = TRUE
    /\ initialized = TRUE
    /\ m_gridSize = ConstructedSize
    /\ m_tiles = FloorTiles(ConstructedSize)
    /\ m_tileSize = DefaultTileSize
    /\ m_textureAliases = DefaultAliases
    /\ vehicleSpawns = << >>
    /\ m_vehicleSpawns = << >>
    /\ edits = 0
    /\ lastOp = "init"
    /\ q = NoQuery
    /\ InitOther

Editing == lastOp # "reloadLevel"

NextSession ==
    \/ Editing /\ toggleWall(<<0, 0, 0>>, North)
    \/ Editing /\ applyBrush(<<1, 0, 0>>, "Empty", "None")
    \/ Editing /\ \E c \in {<<0, 0, 0>>, <<1, 0, 0>>, <<0, 0, 1>>} \cap Cursors,
                        b \in BrushSettings :
                     applyVehicleBrush(c, FALSE, b)
    \/ Editing /\ \E b \in BrushSettings : applyVehicleBrush(<<0, 0, 0>>, TRUE, b)
    \/ Editing /\ \E spawn \in RegistryRequests : addOrUpdateVehicleSpawn(spawn)
    \/ Editing /\ \E newSize \in {<<1, 1, 2>>, <<3, 1, 1>>, <<2, 0, 2>>} : resize(newSize)
    \/ \E file \in SessionFiles : ReloadLevel(file)

SpecSession == InitSession /\ [][NextSession]_vars

-----------------------------------------------------------------------------
(* TileGrid.cpp: the coordinate transforms in single precision *)

\* gridToWorld and worldToGrid compute in float. A float is modelled as
\* [neg, m, e], standing for (-1)^neg * m * 2^e with 2^23 <= m < 2^24, or
\* m = 0 for zero; every operation rounds to nearest, ties to even, as IEEE 754
\* binary32 does. Subnormals, infinities and NaN are outside the values used.
RECURSIVE BitLength(_)
BitLength(n) == IF n = 0 THEN 0 ELSE 1 + BitLength(n \div 2)

\* the float nearest to n * 2^e, for 0 <= n < 2^31
RoundToFloat(neg, n, e) ==
    IF n = 0 THEN [neg |-> FALSE, m |-> 0, e |-> 0]
    ELSE LET bits == BitLength(n)
         IN  IF bits <= 24
             THEN [neg |-> neg, m |-> n * 2^(24 - bits), e |-> e - (24 - bits)]
             ELSE LET shift == bits - 24
                      kept == n \div 2^shift
                      rest == n % 2^shift
                      half == 2^(shift - 1)
                      up == rest > half \/ (rest = half /\ kept % 2 = 1)
                      m1 == IF up THEN kept + 1 ELSE kept
                  IN  IF m1 = 2^24
                      THEN [neg |-> neg, m |-> 2^23, e |-> e + shift + 1]
                      ELSE [neg |-> neg, m |-> m1, e |-> e + shift]

\* the conversion of an int to float (exact below 2^24)
FloatOfInt(i) == RoundToFloat(i < 0, Abs(i), 0)

\* the literal 0.5f
HalfFloat == [neg |-> FALSE, m |-> 2^23, e |-> -24]

\* a * b: the 48-bit product of the significands from their 12-bit halves,
\* then one rounding
FloatMul(a, b) ==
    IF a.m = 0 \/ b.m = 0 THEN [neg |-> FALSE, m |-> 0, e |-> 0]
    ELSE LET ah == a.m \div 4096
             al == a.m % 4096
             bh == b.m \div 4096
             bl == b.m % 4096
             mid == ah * bl + al * bh
             low == al * bl + (mid % 4096) * 4096
             lo == low % 2^24
             hi == ah * bh + (mid \div 4096) + (low \div 2^24)
             sticky == IF lo % 2^20 # 0 THEN 1 ELSE 0
         IN  RoundToFloat(a.neg # b.neg, (hi * 16 + (lo \div 2^20)) * 2 + sticky,
                          a.e + b.e + 19)

\* a + b: the smaller operand is aligned with three extra bits, the bits
\* shifted out collected in the last one, then one rounding
FloatAdd(a, b) ==
    IF a.m = 0 THEN b
    ELSE IF b.m = 0 THEN a
    ELSE LET aIsBig == a.e > b.e \/ (a.e = b.e /\ a.m >= b.m)
             big == IF aIsBig THEN a ELSE b
             small == IF aIsBig THEN b ELSE a
             diff == big.e - small.e
             bigN == big.m * 8
             smallN == IF diff > 27 THEN 1
                       ELSE LET shifted == (small.m * 8) \div 2^diff
                                lost == (small.m * 8) % 2^diff
                            IN  IF lost # 0 /\ shifted % 2 = 0 THEN shifted + 1
                                ELSE shifted
         IN  IF big.neg = small.neg
             THEN RoundToFloat(big.neg, bigN + smallN, big.e - 3)
             ELSE RoundToFloat(big.neg, bigN - smallN, big.e - 3)

\* a / b for b # 0: 28 quotient bits by long division, seven bits at a time,
\* the remainder collected in one more bit, then one rounding
FloatDiv(a, b) ==
    IF a.m = 0 THEN [neg |-> FALSE, m |-> 0, e |-> 0]
    ELSE LET q0 == a.m \div b.m
             r0 == a.m % b.m
             q1 == (r0 * 128) \div b.m
             r1 == (r0 * 128) % b.m
             q2 == (r1 * 128) \div b.m
             r2 == (r1 * 128) % b.m
             q3 == (r2 * 128) \div b.m
             r3 == (r2 * 128) % b.m
             q4 == (r3 * 128) \div b.m
             r4 == (r3 * 128) % b.m
             quotient == (((q0 * 128 + q1) * 128 + q2) * 128 + q3) * 128 + q4
             sticky == IF r4 # 0 THEN 1 ELSE 0
         IN  RoundToFloat(a.neg # b.neg, quotient * 2 + sticky, a.e - b.e - 29)

\* static_cast<int>(std::floor(a)), for |a| < 2^30
FloatFloor(a) ==
    IF a.m = 0 THEN 0
    ELSE IF a.e >= 0 THEN (IF a.neg THEN -1 ELSE 1) * a.m * 2^a.e
    ELSE IF a.e <= -24 THEN (IF a.neg THEN -1 ELSE 0)
    ELSE LET whole == a.m \div 2^(-a.e)
             frac == a.m % 2^(-a.e)
         IN  IF ~a.neg THEN whole
             ELSE IF frac = 0 THEN -whole
             ELSE -whole - 1

\* parseFloat of a tile_size value with three decimals: the float nearest to
\* the decimal number
FloatOfThousandths(k) == FloatDiv(FloatOfInt(k), FloatOfInt(1000))

\* TileGrid::gridToWorld with m_tileSize the float tileSize
gridToWorldFloat(gridPos, tileSize) ==
    <<FloatMul(FloatOfInt(gridPos[1]), tileSize),
      FloatMul(FloatOfInt(gridPos[2]), tileSize),
      FloatMul(FloatOfInt(gridPos[3] - 1), tileSize)>>

\* TileGrid::worldToGrid with m_tileSize the float tileSize
worldToGridFloat(worldPos, tileSize) ==
    LET halfSize == FloatMul(tileSize, HalfFloat)
    IN  <<FloatFloor(FloatDiv(FloatAdd(worldPos[1], halfSize), tileSize)),
          FloatFloor(FloatDiv(FloatAdd(worldPos[2], halfSize), tileSize)),
          FloatFloor(FloatDiv(FloatAdd(worldPos[3], tileSize), tileSize))>>

\* the tile sizes level files give, in thousandths
CoordTileSizes == {100, 900, 2500, 3072}

\* grid positions inside and outside the 2 x 1 x 2 grid
CoordPositions == {<<x, y, z>> : x \in -2..3, y \in {0}, z \in -2..3}

\* loadLevel of a file whose only line is tile_size
LoadTileSize(k) ==
    /\ lastOp = "init"
    /\ LoadInto(File(<<TileSizeLine(k)>>), "loadLevel", CurrentWorld)

\* worldToGrid(gridToWorld(p)) is asked for
RoundTripQuery(p) ==
    /\ initialized
    /\ lastOp \in {"init", "loadLevel"}
    /\ lastOp' = "roundTrip"
    /\ q' = [op |-> "roundTrip", pos |-> p,
             back |-> worldToGridFloat(
                          gridToWorldFloat(p, FloatOfThousandths(m_tileSize)),
                          FloatOfThousandths(m_tileSize))]
    /\ UNCHANGED otherVars /\ UNCHANGED <<constructed, initialized, m_gridSize, m_tileSize, m_tiles,
                   m_textureAliases, vehicleSpawns, m_vehicleSpawns, edits>>

NextCoords ==
    \/ \E k \in CoordTileSizes : LoadTileSize(k)
    \/ \E p \in CoordPositions : RoundTripQuery(p)

SpecCoords == InitSession /\ [][NextCoords]_vars

-----------------------------------------------------------------------------
(* Claims about canOccupy *)

Queried == q.op = "canOccupy"

qStart == worldToGrid(q.startPos)
qEnd == worldToGrid(q.endPos)
qInBounds ==
    /\ qStart \in Cells(m_gridSize)
    /\ qEnd \in Cells(m_gridSize)

qDiff == <<qEnd[1] - qStart[1], qEnd[2] - qStart[2], qEnd[3] - qStart[3]>>

TileOf(c) == m_tiles[c[1] + c[2] * m_gridSize[1] + c[3] * m_gridSize[1] * m_gridSize[2] + 1]

\* the cell below c exists and its top surface is solid
SupportedCell(c) ==
    /\ c[3] >= 1
    /\ <<c[1], c[2], c[3] - 1>> \in Cells(m_gridSize)
    /\ TileOf(<<c[1], c[2], c[3] - 1>>).topSurface.solid

\* C1: a query whose two positions map to the same in-bounds cell c returns
\* true exactly when c.z >= 1 and the tile below c has a solid top; the walls
\* and the top of c itself play no part.
C1_SameCellIffGroundSupport ==
    (Queried /\ qInBounds /\ qStart = qEnd) => (q.result <=> SupportedCell(qEnd))

\* a same-cell query between two different world positions, answered true
\* although the cell itself has a blocked wall and no solid top
C1_Witness ==
    /\ Queried /\ qInBounds /\ qStart = qEnd
    /\ q.startPos # q.endPos
    /\ q.result
    /\ ~TileOf(qEnd).topSurface.solid
    /\ \E d \in WallDirections : ~TileOf(qEnd).walls[d].walkable

qOrthogonalStep ==
    /\ Queried /\ qInBounds
    /\ qDiff[3] = 0
    /\ Abs(qDiff[1]) + Abs(qDiff[2]) = 1

\* C2: for an orthogonal one-cell step A -> B, the result is false when either
\* wall of the checked pair is not walkable, and equals B's ground support when
\* both are walkable.
C2_EitherWallBlocks ==
    qOrthogonalStep =>
        LET dirs == StepWalls(qDiff)
            aOpen == TileOf(qStart).walls[dirs[1]].walkable
            bOpen == TileOf(qEnd).walls[dirs[2]].walkable
        IN  /\ (~aOpen \/ ~bOpen) => ~q.result
            /\ (aOpen /\ bOpen) => (q.result <=> SupportedCell(qEnd))

\* a step refused because of A's wall alone: B's wall is open and B is supported
C2_Witness ==
    /\ qOrthogonalStep
    /\ ~TileOf(qStart).walls[StepWalls(qDiff)[1]].walkable
    /\ TileOf(qEnd).walls[StepWalls(qDiff)[2]].walkable
    /\ SupportedCell(qEnd)
    /\ ~q.result

qStepPlusY == qOrthogonalStep /\ qDiff[2] = 1

\* C3: a step of +1 in Y is decided by the source tile's North wall and the
\* destination tile's South wall: it fails when either is not walkable, and
\* the source's South wall and the destination's North wall do not change the
\* result, which with both checked walls open is the destination's support.
C3_PlusYChecksNorthThenSouth ==
    qStepPlusY =>
        LET aOpen == TileOf(qStart).walls[North].walkable
            bOpen == TileOf(qEnd).walls[South].walkable
        IN  /\ (~aOpen \/ ~bOpen) => ~q.result
            /\ (aOpen /\ bOpen) => (q.result <=> SupportedCell(qEnd))

\* C4: a query between distinct in-bounds cells that differ in z, or lie more
\* than one cell apart horizontally, returns false.
C4_NoVerticalDiagonalOrLongMove ==
    (Queried /\ qInBounds /\ qStart # qEnd
        /\ (qDiff[3] # 0 \/ Abs(qDiff[1]) + Abs(qDiff[2]) > 1))
        => ~q.result

\* a refused diagonal move on one layer whose destination is supported and
\* whose two cells have all walls open
C4_Witness ==
    /\ Queried /\ qInBounds
    /\ qDiff[3] = 0 /\ Abs(qDiff[1]) = 1 /\ Abs(qDiff[2]) = 1
    /\ SupportedCell(qEnd)
    /\ \A d \in WallDirections :
          TileOf(qStart).walls[d].walkable /\ TileOf(qEnd).walls[d].walkable
    /\ ~q.result

\* a refused two-cell move along X whose destination is supported
C4_WitnessLongMove ==
    /\ Queried /\ qInBounds
    /\ qDiff = <<2, 0, 0>>
    /\ SupportedCell(qEnd)
    /\ ~q.result

\* C5: a query whose two positions both map to layer 0 returns false.
C5_LayerZeroNeverOccupiable ==
    (Queried /\ qInBounds /\ qStart[3] = 0 /\ qEnd[3] = 0) => ~q.result

\* a refused step between two adjacent layer-0 cells that are open to each
\* other and both have solid tops
C5_Witness ==
    /\ qOrthogonalStep
    /\ qStart[3] = 0 /\ qEnd[3] = 0
    /\ TileOf(qStart).walls[StepWalls(qDiff)[1]].walkable
    /\ TileOf(qEnd).walls[StepWalls(qDiff)[2]].walkable
    /\ TileOf(qStart).topSurface.solid /\ TileOf(qEnd).topSurface.solid
    /\ ~q.result

-----------------------------------------------------------------------------
(* Claims about the tile array *)

InBoundsOf(size, pos) ==
    /\ 0 <= pos[1] /\ pos[1] < size[1]
    /\ 0 <= pos[2] /\ pos[2] < size[2]
    /\ 0 <= pos[3] /\ pos[3] < size[3]

\* C6: in every state of the grid, constructed, initialized or after a load,
\* isValidPosition is true exactly inside the current size, getTile returns a
\* live tile exactly when the position is valid, and getTile never indexes
\* outside the tile array.
C6_GetTileLiveIffValid ==
    q.op = "getTile" =>
        /\ q.valid <=> InBoundsOf(m_gridSize, q.pos)
        /\ IsLiveTile(q.result) <=> q.valid
        /\ ~q.valid => q.result = NullTile
        /\ ~q.overrun

TilesMatchSize ==
    /\ Len(m_tiles) = m_gridSize[1] * m_gridSize[2] * m_gridSize[3]
    /\ \A i \in DOMAIN m_tiles : m_tiles[i].gridPosition = PosOfIndex(m_gridSize, i - 1)

\* C7: after every rebuild or load, failed or not, all three dimensions of the
\* grid size are at least 1 and the tile array holds exactly x*y*z tiles, the
\* tile at index x + y*size.x + z*size.x*size.y carrying position (x, y, z).
C7_SizePositiveAndTilesMatch ==
    lastOp \in {"initialize", "loadLevel", "loadSaved"} =>
        SizeIsValid(m_gridSize) /\ TilesMatchSize

-----------------------------------------------------------------------------
(* Claims about save and reload *)

Reloaded == q.op = "loadSaved"

SameTileContent(t, u) ==
    /\ t.topSurface.solid = u.topSurface.solid
    /\ t.topSurface.texturePath = u.topSurface.texturePath
    /\ t.topSurface.carDirection = u.topSurface.carDirection
    /\ \A d \in WallDirections :
          /\ t.walls[d].walkable = u.walls[d].walkable
          /\ t.walls[d].texturePath = u.walls[d].texturePath

\* C8: saveLevel followed by loadLevel of the written file gives a grid of the
\* same size and tile size whose every cell has the same top solid flag, top
\* texture path, car direction, wall walkable flags and wall texture paths.
C8_RoundTripPreservesGrid ==
    Reloaded =>
        /\ m_gridSize = q.saved.gridSize
        /\ m_tileSize = q.saved.tileSize
        /\ \A c \in Cells(q.saved.gridSize) :
              SameTileContent(
                  m_tiles[IndexIn(m_gridSize, c[1], c[2], c[3]) + 1],
                  q.saved.tiles[IndexIn(q.saved.gridSize, c[1], c[2], c[3]) + 1])

SpawnSet(spawns) == {spawns[k] : k \in DOMAIN spawns}

\* the spawns of a world that stand on a tile with a solid top
SupportedSpawns(w) ==
    {s \in SpawnSet(w.spawns) :
        /\ InBoundsOf(w.gridSize, s.gridPosition)
        /\ w.tiles[IndexIn(w.gridSize, s.gridPosition[1], s.gridPosition[2],
                           s.gridPosition[3]) + 1].topSurface.solid}

\* C9: saveLevel followed by loadLevel of the written file reproduces the
\* spawn set: every spawn held at save time on a tile with a solid top is
\* there after the load with the same position, rotation, size and texture,
\* and no spawn is there that was not held at save time.
C9_RoundTripPreservesSpawns ==
    Reloaded =>
        /\ SupportedSpawns(q.saved) \subseteq SpawnSet(vehicleSpawns)
        /\ SpawnSet(vehicleSpawns) \subseteq SpawnSet(q.saved.spawns)

-----------------------------------------------------------------------------
(* Claims about error handling in loadLevel *)

\* the lines of a file with those of the given numbers blanked out
WithoutLines(lines, numbers) ==
    [k \in DOMAIN lines |->
        IF \E e \in DOMAIN numbers : numbers[e] = k THEN CommentLine ELSE lines[k]]

\* C10: a line loadLevel reports an error for has no effect on the grid or
\* the spawn list, every other line has the effect it has without that line,
\* and loadLevel returns true when the file opens and the grid size is valid.
C10_ErrorLinesHaveNoEffect ==
    (q.op = "loadLevel" /\ q.file.openable) =>
        /\ CurrentWorld = loadLevel(File(WithoutLines(q.file.lines, q.errors)), q.pre).world
        /\ SizeIsValid(m_gridSize) => q.result

-----------------------------------------------------------------------------
(* Claims about the two passes of loadLevel *)

Loaded == q.op = "loadLevel" /\ q.file.openable

IsPass1Line(line) == line.cmd \in {"grid", "tile_size", "tilesize", "texture", "alias"}

\* the lines of a file with the grid, tile_size and texture lines moved to the
\* front, each group in its own order
Pass1First(lines) ==
    SelectSeq(lines, IsPass1Line) \o SelectSeq(lines, LAMBDA l : ~IsPass1Line(l))

\* no line after the k-th satisfies P
IsLastWith(lines, k, P(_)) ==
    /\ P(lines[k])
    /\ \A j \in DOMAIN lines : j > k => ~P(lines[j])

IsGridLine(line) == line.cmd = "grid" /\ line.ok

\* C11: the loaded state does not depend on where grid, tile_size and texture
\* lines stand among the tile, fill and vehicle lines; the grid size is that
\* of the last grid line and each alias names the path of its last texture
\* line, and these are what the tile lines are applied against.
C11_LoadIsOrderIndependent ==
    Loaded =>
        /\ CurrentWorld = loadLevel(File(Pass1First(q.file.lines)), q.pre).world
        /\ \A k \in DOMAIN q.file.lines :
              IsLastWith(q.file.lines, k, IsGridLine)
                  => m_gridSize = q.file.lines[k].coords
        /\ (\A k \in DOMAIN q.file.lines : ~IsGridLine(q.file.lines[k]))
              => m_gridSize = q.pre.gridSize
        /\ \A k \in DOMAIN q.file.lines :
              LET line == q.file.lines[k]
                  SameAlias(l) == l.cmd \in {"texture", "alias"} /\ l.alias = line.alias
              IN  (line.cmd = "texture" /\ IsLastWith(q.file.lines, k, SameAlias))
                      => m_textureAliases[line.alias] = line.path

\* a tile line naming alias a stands before the texture line that defines a,
\* and the tile carries the path that line gives
C11_Witness ==
    /\ Loaded /\ q.result
    /\ Len(q.file.lines) = 2
    /\ q.file.lines[1].cmd = "tile"
    /\ q.file.lines[1].tokens[1].tex = "a"
    /\ q.file.lines[2] = TextureLine("a", "road")
    /\ m_tiles[1].topSurface.texturePath = "road"

-----------------------------------------------------------------------------
(* Claims about what a load leaves behind *)

\* C12: whenever loadLevel returns false, the grid's size, tile size, alias
\* table and tiles and the level data's spawn list are what they were before
\* the call.
C12_FailedLoadChangesNothing ==
    (q.op \in {"loadLevel", "loadSaved", "reloadLevel"} /\ ~q.result) => CurrentWorld = q.pre

Reloading == q.op = "reloadLevel" /\ q.file.openable

\* a fill token gives the axis a range that holds the coordinate
RangeHolds(tokens, axis, value) ==
    \E t \in DOMAIN tokens :
        /\ tokens[t].eq /\ tokens[t].key = axis /\ tokens[t].ok
        /\ \/ (tokens[t].lo <= value /\ value <= tokens[t].hi)
           \/ (tokens[t].hi <= value /\ value <= tokens[t].lo)

\* the cell is named by a tile line or lies in the box of a fill line
Targeted(lines, c) ==
    \E k \in DOMAIN lines :
        \/ lines[k].cmd = "tile" /\ lines[k].ok /\ lines[k].coords = c
        \/ /\ lines[k].cmd = "fill"
           /\ RangeHolds(lines[k].tokens, "x", c[1])
           /\ RangeHolds(lines[k].tokens, "y", c[2])
           /\ RangeHolds(lines[k].tokens, "z", c[3])

\* the positions of the vehicle lines loadLevel reported no error for
AcceptedVehiclePositions(lines, errors) ==
    {lines[k].coords : k \in {j \in DOMAIN lines :
        /\ lines[j].cmd = "vehicle"
        /\ \A e \in DOMAIN errors : errors[e] # j}}

\* C13: a successful loadLevel is a full reload: every cell no tile or fill
\* line targets is in the default state and the spawn list holds exactly the
\* spawns of the accepted vehicle lines, whatever the grid and the spawn list
\* held before and whether or not the file has a grid line.
C13_SuccessfulLoadIsFullReload ==
    (Reloading /\ q.result) =>
        /\ \A c \in Cells(m_gridSize) :
              ~Targeted(q.file.lines, c)
                  => m_tiles[IndexIn(m_gridSize, c[1], c[2], c[3]) + 1] = NewTile(c)
        /\ {s.gridPosition : s \in SpawnSet(vehicleSpawns)}
              = AcceptedVehiclePositions(q.file.lines, q.errors)
        /\ Len(vehicleSpawns) = Cardinality(AcceptedVehiclePositions(q.file.lines, q.errors))

\* a file without a grid line is loaded into a grid that held an edited tile
\* and a spawn, neither of which the file mentions
C13_Witness ==
    /\ Reloading /\ q.result
    /\ \A k \in DOMAIN q.file.lines : q.file.lines[k].cmd \notin {"grid", "fill"}
    /\ q.file.lines # << >>
    /\ q.pre.gridSize = m_gridSize
    /\ q.pre.tiles[1] # NewTile(<<0, 0, 0>>)
    /\ ~Targeted(q.file.lines, <<0, 0, 0>>)
    /\ q.pre.spawns # << >>
    /\ m_tiles[1] = NewTile(<<0, 0, 0>>)
    /\ vehicleSpawns = << >>

----------------------------------------------------------------------------
\* Claims about the vehicle spawns

\* the second pass of the reloaded file after its first k lines
ParsedUpTo(k) ==
    Pass2(SubSeq(q.file.lines, 1, k), 1, m_gridSize, m_textureAliases,
          [tiles |-> FreshTiles(m_gridSize), spawns |-> << >>,
           errors |-> << >>, warnings |-> << >>])

\* the tile a vehicle line names is in bounds and has a solid top surface when
\* the line is reached
SupportedWhenReached(k) ==
    LET c == q.file.lines[k].coords
    IN  /\ q.file.lines[k].ok
        /\ ValidIn(m_gridSize, c[1], c[2], c[3])
        /\ isTopSolid(ParsedUpTo(k - 1).tiles[IndexIn(m_gridSize, c[1], c[2], c[3]) + 1])

BrushPlaced == q.op = "applyVehicleBrush" /\ ~q.removeMode

\* C14: a vehicle line of the parser or the editor's vehicle brush adds or
\* updates a spawn only if the position is in bounds and the tile there has a
\* solid top surface at that moment; otherwise the spawn list is unchanged.
C14_SpawnNeedsSolidTile ==
    /\ BrushPlaced =>
          IF InBoundsOf(m_gridSize, q.cursor) /\ q.solid
          THEN \E k \in DOMAIN vehicleSpawns : vehicleSpawns[k].gridPosition = q.cursor
          ELSE vehicleSpawns = q.pre
    /\ (Reloading /\ q.result) =>
          \A k \in DOMAIN q.file.lines :
              q.file.lines[k].cmd = "vehicle" =>
                  IF SupportedWhenReached(k)
                  THEN ParsedUpTo(k).spawns = ParsedUpTo(k - 1).spawns
                          \/ \E j \in DOMAIN ParsedUpTo(k).spawns :
                                ParsedUpTo(k).spawns[j].gridPosition = q.file.lines[k].coords
                  ELSE ParsedUpTo(k).spawns = ParsedUpTo(k - 1).spawns

\* the brush is applied over a tile without a solid top while a spawn exists
\* elsewhere, and the list stays as it was
C14_Witness ==
    /\ BrushPlaced
    /\ InBoundsOf(m_gridSize, q.cursor)
    /\ ~q.solid
    /\ q.pre # << >>
    /\ vehicleSpawns = q.pre
    /\ \A k \in DOMAIN vehicleSpawns : vehicleSpawns[k].gridPosition # q.cursor

\* no two records of the list share a grid position
OnePerPosition(spawns) ==
    \A i, j \in DOMAIN spawns :
        spawns[i].gridPosition = spawns[j].gridPosition => i = j

HasSpawnAt(spawns, gridPos) ==
    \E k \in DOMAIN spawns : spawns[k].gridPosition = gridPos

\* the list holds the record, and as many records as the list before
ReplacedBy(spawns, before, record) ==
    /\ Len(spawns) = Len(before)
    /\ \E k \in DOMAIN spawns : spawns[k] = record

\* the record a vehicle line of the reloaded file asks for
LineSpawn(k) ==
    VehicleTokens(q.file.lines[k].tokens, 1, k, m_textureAliases,
                  [spawn |-> NewSpawn(q.file.lines[k].coords), parseOk |-> TRUE,
                   errors |-> << >>])

\* C15: the spawn list holds at most one spawn per grid position after any
\* sequence of vehicle lines, editor placements and removals and
\* addOrUpdateVehicleSpawn calls; an add at an occupied position, unless it is
\* rejected for its position, replaces the record with the latest values and
\* leaves the number of spawns unchanged.
C15_OneSpawnPerPosition ==
    /\ OnePerPosition(vehicleSpawns)
    /\ OnePerPosition(m_vehicleSpawns)
    /\ (BrushPlaced /\ q.solid /\ HasSpawnAt(q.pre, q.cursor)) =>
          ReplacedBy(vehicleSpawns, q.pre, BrushSpawn(q.cursor, q.brush))
    /\ (/\ q.op = "addOrUpdateVehicleSpawn"
        /\ InBoundsOf(m_gridSize, q.spawn.gridPosition)
        /\ HasSpawnAt(q.pre, q.spawn.gridPosition)) =>
          ReplacedBy(m_vehicleSpawns, q.pre, NormalizedSpawn(q.spawn))
    /\ (Reloading /\ q.result) =>
          \A k \in DOMAIN q.file.lines :
              (/\ q.file.lines[k].cmd = "vehicle"
               /\ SupportedWhenReached(k)
               /\ LineSpawn(k).parseOk
               /\ HasSpawnAt(ParsedUpTo(k - 1).spawns, q.file.lines[k].coords)) =>
                  ReplacedBy(ParsedUpTo(k).spawns, ParsedUpTo(k - 1).spawns,
                             LineSpawn(k).spawn)

\* a file places two different vehicles on the same supported tile, and the
\* list ends with the second one alone
C15_Witness ==
    /\ Reloading /\ q.result
    /\ \E k \in DOMAIN q.file.lines :
          /\ q.file.lines[k].cmd = "vehicle"
          /\ SupportedWhenReached(k)
          /\ HasSpawnAt(ParsedUpTo(k - 1).spawns, q.file.lines[k].coords)
          /\ \A j \in DOMAIN ParsedUpTo(k - 1).spawns :
                ParsedUpTo(k - 1).spawns[j] # LineSpawn(k).spawn
          /\ k = Len(q.file.lines)
          /\ vehicleSpawns = <<LineSpawn(k).spawn>>

\* the rotation lies in [0, 360) and both size components are positive
IsNormalized(spawn) ==
    /\ 0 <= spawn.rotationDegrees /\ spawn.rotationDegrees < 360000
    /\ spawn.size[1] > 0 /\ spawn.size[2] > 0

\* C16: every stored vehicle spawn, whether a vehicle line of loadLevel, the
\* editor's vehicle brush or addOrUpdateVehicleSpawn added it, has its
\* rotation in [0, 360) and both size components > 0.
C16_StoredSpawnsAreNormalized ==
    /\ \A k \in DOMAIN vehicleSpawns : IsNormalized(vehicleSpawns[k])
    /\ \A k \in DOMAIN m_vehicleSpawns : IsNormalized(m_vehicleSpawns[k])

----------------------------------------------------------------------------
\* Claims about resize

Resized == q.op = "resize" /\ \A d \in 1..3 : q.newSize[d] >= 1

\* C17: resize(newSize) with all dimensions >= 1 succeeds; every cell inside
\* both the old and the new bounds keeps its walls and top surface, every
\* cell of the new grid outside the old bounds is in the default state, and
\* the cells outside the new bounds are dropped without error.
C17_ResizeKeepsOverlap ==
    Resized =>
        /\ q.result
        /\ m_gridSize = q.newSize
        /\ Len(m_tiles) = q.newSize[1] * q.newSize[2] * q.newSize[3]
        /\ \A c \in Cells(q.newSize) :
              LET tile == m_tiles[IndexIn(q.newSize, c[1], c[2], c[3]) + 1]
              IN  IF InBoundsOf(q.pre.gridSize, c)
                  THEN LET old == q.pre.tiles[IndexIn(q.pre.gridSize, c[1], c[2], c[3]) + 1]
                       IN  /\ tile.walls = old.walls
                           /\ tile.topSurface = old.topSurface
                           /\ tile.gridPosition = c
                  ELSE tile = NewTile(c)

\* a grid whose first tile has an edited wall and a solid top grows along x
\* and loses its upper layer
C17_Witness ==
    /\ Resized
    /\ q.pre.gridSize = <<2, 1, 2>>
    /\ q.newSize = <<3, 1, 1>>
    /\ q.pre.tiles[1].walls # NewTile(<<0, 0, 0>>).walls
    /\ q.pre.tiles[1].topSurface.solid
    /\ m_tiles[1].walls = q.pre.tiles[1].walls
    /\ m_tiles[3] = NewTile(<<2, 0, 0>>)

----------------------------------------------------------------------------
\* Claims about the coordinate transforms

\* C18: for every grid position p, inside or outside the grid, and every
\* positive tile size, worldToGrid(gridToWorld(p)) = p.
C18_RoundTripIsIdentity ==
    q.op = "roundTrip" => q.back = q.pos

----------------------------------------------------------------------------
\* Claims about the fill command

\* the line has a token for the axis that parses as a range
AxisGiven(tokens, axis) ==
    \E t \in DOMAIN tokens : tokens[t].eq /\ tokens[t].key = axis /\ tokens[t].ok

\* the line has a token for the axis that does not parse as a range
AxisUnparsable(tokens, axis) ==
    \E t \in DOMAIN tokens : tokens[t].eq /\ tokens[t].key = axis /\ ~tokens[t].ok

FillAxes == {"x", "y", "z"}

CarriesValidRanges(tokens) ==
    \A axis \in FillAxes : AxisGiven(tokens, axis) /\ ~AxisUnparsable(tokens, axis)

\* the tiles the k-th line of the loaded file changed
ChangedBy(k) ==
    {c \in Cells(m_gridSize) :
        ParsedUpTo(k).tiles[IndexIn(m_gridSize, c[1], c[2], c[3]) + 1]
            # ParsedUpTo(k - 1).tiles[IndexIn(m_gridSize, c[1], c[2], c[3]) + 1]}

\* the in-bounds cells of the box the ranges of a fill line describe
BoxOf(tokens) ==
    {c \in Cells(m_gridSize) :
        /\ RangeHolds(tokens, "x", c[1])
        /\ RangeHolds(tokens, "y", c[2])
        /\ RangeHolds(tokens, "z", c[3])}

\* the keys of a fill line, as the tile configuration they amount to
KeysOf(tokens, k) ==
    TileTokens(SelectSeq(tokens, LAMBDA t : t.eq /\ t.key \notin FillAxes), 1, k,
               [config |-> TileConfig, parseOk |-> TRUE, errors |-> << >>])

\* C19: a fill line changes a cell only if it carries valid x=, y= and z=
\* ranges and the cell lies in their inclusive box, and then every in-bounds
\* cell of the box receives the same keys; when any of x, y or z is missing or
\* unparsable no cell of the grid is changed.
C19_FillNeedsAllRanges ==
    (Loaded /\ q.result) =>
        \A k \in DOMAIN q.file.lines :
            q.file.lines[k].cmd = "fill" =>
                LET tokens == q.file.lines[k].tokens
                IN  /\ ChangedBy(k) # {} =>
                          /\ CarriesValidRanges(tokens)
                          /\ ChangedBy(k) \subseteq BoxOf(tokens)
                          /\ \A c \in BoxOf(tokens) :
                                ParsedUpTo(k).tiles[IndexIn(m_gridSize, c[1], c[2], c[3]) + 1]
                                    = applyTileConfig(
                                          ParsedUpTo(k - 1).tiles[
                                              IndexIn(m_gridSize, c[1], c[2], c[3]) + 1],
                                          KeysOf(tokens, k).config, m_textureAliases)
                    /\ ~CarriesValidRanges(tokens) => ChangedBy(k) = {}

----------------------------------------------------------------------------
\* Claims about the diagnostics of loadLevel

KnownCommands ==
    {"grid", "tile_size", "tilesize", "texture", "alias", "tile", "fill", "vehicle"}

TilePropertyKeys ==
    {"top", "car", "cardirection", "traffic"}
        \cup {"n", "north", "wall_n", "wall_north", "walln", "wallnorth"}
        \cup {"s", "south", "wall_s", "wall_south", "walls", "wallsouth"}
        \cup {"e", "east", "wall_e", "wall_east", "walle", "walleast"}
        \cup {"w", "west", "wall_w", "wall_west", "wallw", "wallwest"}

VehiclePropertyKeys ==
    {"rotation", "angle", "yaw", "texture", "tex", "size", "dimensions"}

HasUnknownCommand(line) == line.cmd # "" /\ line.cmd \notin KnownCommands

HasMalformedNumber(line) ==
    /\ line.cmd \in KnownCommands
    /\ \/ ~line.ok
       \/ \E t \in DOMAIN line.tokens : line.tokens[t].eq /\ ~line.tokens[t].ok

HasOutOfRangeCoordinate(line) ==
    /\ line.cmd \in {"tile", "vehicle"}
    /\ line.ok
    /\ ~InBoundsOf(m_gridSize, line.coords)

HasUnknownKey(line) ==
    \E t \in DOMAIN line.tokens :
        /\ line.tokens[t].eq
        /\ \/ line.cmd = "tile" /\ line.tokens[t].key \notin TilePropertyKeys
           \/ line.cmd = "fill" /\ line.tokens[t].key \notin TilePropertyKeys \cup FillAxes
           \/ line.cmd = "vehicle" /\ line.tokens[t].key \notin VehiclePropertyKeys

\* the line is one of those the claim says are reported
MustBeReported(line) ==
    \/ HasUnknownCommand(line)
    \/ HasMalformedNumber(line)
    \/ HasOutOfRangeCoordinate(line)
    \/ HasUnknownKey(line)

\* the line numbers loadLevel logged an error or a warning for
Diagnosed ==
    {q.errors[i] : i \in DOMAIN q.errors} \cup {q.warnings[i] : i \in DOMAIN q.warnings}

\* C20: every line with an unknown command, a malformed number, an
\* out-of-range coordinate or an unknown property key gets a diagnostic with
\* its line number; a file of n such lines gets diagnostics for exactly those
\* n line numbers.
C20_BadLinesAreReported ==
    (Loaded /\ q.result) =>
        /\ \A k \in DOMAIN q.file.lines :
              MustBeReported(q.file.lines[k]) => k \in Diagnosed
        /\ (\A k \in DOMAIN q.file.lines : MustBeReported(q.file.lines[k]))
              => Diagnosed = DOMAIN q.file.lines

-----------------------------------------------------------------------------
(* TileGrid.cpp: the texture cache *)

\* bound: loadFromFile calls the model follows per path
MaxLoads == 3

\* the files Texture::loadFromFile can read (stbi_load returns data)
LoadablePaths == {"assets/textures/grass.png", "assets/textures/road.png"}

\* Texture::loadFromFile: true iff the image could be read
loadFromFile(path) == path \in LoadablePaths

\* the identifiers loadTexture is given: two aliases, a plain path, the empty one
TextureIdentifiers == {"grass", "road", "missing.png", ""}

\* TileGrid::loadTextureFromPath: the empty path and a cached path return
\* without the loader; otherwise the loader runs once, and only a texture
\* that loaded gets an entry
loadTextureFromPath(op, identifier, path) ==
    /\ initialized
    /\ IF path = ""
         THEN /\ q' = [op |-> op, identifier |-> identifier, path |-> path,
                       loaded |-> FALSE, result |-> "nullptr"]
              /\ UNCHANGED textureVars
         ELSE IF path \in m_textureCache
         THEN /\ q' = [op |-> op, identifier |-> identifier, path |-> path,
                       loaded |-> FALSE, result |-> "texture"]
              /\ UNCHANGED textureVars
         ELSE /\ loaderCalls[path] < MaxLoads
              /\ loaderCalls' = [loaderCalls EXCEPT ![path] = @ + 1]
              /\ IF loadFromFile(path)
                   THEN /\ m_textureCache' = m_textureCache \cup {path}
                        /\ q' = [op |-> op, identifier |-> identifier, path |-> path,
                                 loaded |-> TRUE, result |-> "texture"]
                   ELSE /\ UNCHANGED m_textureCache
                        /\ q' = [op |-> op, identifier |-> identifier, path |-> path,
                                 loaded |-> TRUE, result |-> "nullptr"]
    /\ lastOp' = op
    /\ UNCHANGED <<gridVars, renderedTile, moverVars, inputVars, selectionVars, sceneVars>>

\* TileGrid::loadTexture
loadTexture(identifier) ==
    loadTextureFromPath("loadTexture", identifier,
                        resolveTexturePath(m_textureAliases, identifier))

NextTextures ==
    \/ \E identifier \in TextureIdentifiers : loadTexture(identifier)
    \/ \E path \in TexturePaths \cup {""} :
           loadTextureFromPath("loadTextureFromPath", path, path)

SpecTextures == InitSession /\ [][NextTextures]_vars

-----------------------------------------------------------------------------
(* Claims about the texture cache *)

\* C21: through any sequence of loadTexture / loadTextureFromPath calls the
\* loader is invoked at most once for each resolved path, a failed load
\* included.
C21_LoaderRunsOncePerPath ==
    \A path \in TexturePaths : loaderCalls[path] <= 1

-----------------------------------------------------------------------------
(* Tile.cpp: the setters of one tile, its cached meshes and render *)

\* m_meshesGenerated = false
MarkStale(tile) == [tile EXCEPT !.m_meshesGenerated = FALSE]

\* Tile::setWallWalkable: changes the flag and leaves m_meshesGenerated alone
setWallWalkable(tile, dir, walkable) ==
    [tile EXCEPT !.walls[dir].walkable = walkable]

\* Tile::setWallTexture
setWallTexture(tile, dir, texturePath) ==
    MarkStale([tile EXCEPT !.walls[dir].texturePath = texturePath])

\* Tile::setTopSolid: changes the flag and leaves m_meshesGenerated alone
setTopSolid(tile, solid) ==
    [tile EXCEPT !.topSurface.solid = solid]

\* Tile::setTopTexture
setTopTexture(tile, texturePath) ==
    MarkStale([tile EXCEPT !.topSurface.texturePath = texturePath])

\* Tile::generateMeshes: a wall mesh for each wall that is not walkable,
\* a top mesh iff the top is solid
generateMeshes(tile) ==
    [tile EXCEPT !.m_wallMeshes = {d \in WallDirections : ~tile.walls[d].walkable},
                 !.m_topMesh = tile.topSurface.solid,
                 !.m_meshesGenerated = TRUE]

\* Tile::render
render(tile) == IF ~tile.m_meshesGenerated THEN generateMeshes(tile) ELSE tile

\* the arguments the setters are called with
SetterWalls == {North, East}

SetterTextures == {"", "wall"}

SetterCarDirections == {"None", "North"}

\* one call on the tile
TileCall(op, tile) ==
    /\ renderedTile' = tile
    /\ lastOp' = op
    /\ q' = [op |-> op]
    /\ UNCHANGED <<gridVars, textureVars, moverVars, inputVars, selectionVars, sceneVars>>

NextTile ==
    \/ \E d \in SetterWalls, w \in BOOLEAN, t \in SetterTextures :
           TileCall("setWall", MarkStale(setWall(renderedTile, d, w, t)))
    \/ \E d \in SetterWalls, w \in BOOLEAN :
           TileCall("setWallWalkable", setWallWalkable(renderedTile, d, w))
    \/ \E d \in SetterWalls, t \in SetterTextures :
           TileCall("setWallTexture", setWallTexture(renderedTile, d, t))
    \/ \E s \in BOOLEAN, t \in SetterTextures, c \in SetterCarDirections :
           TileCall("setTopSurface", MarkStale(setTopSurface(renderedTile, s, t, c)))
    \/ \E s \in BOOLEAN : TileCall("setTopSolid", setTopSolid(renderedTile, s))
    \/ \E t \in SetterTextures : TileCall("setTopTexture", setTopTexture(renderedTile, t))
    \/ \E c \in SetterCarDirections :
           TileCall("setCarDirection", setCarDirection(renderedTile, c))
    \/ TileCall("render", render(renderedTile))

SpecTile == InitSession /\ [][NextTile]_vars

-----------------------------------------------------------------------------
(* Claims about the cached geometry of a tile *)

\* C22: after any sequence of setter calls and renders, a tile whose meshes
\* are marked generated has a wall mesh exactly for each wall that is not
\* walkable and a top mesh exactly when its top is solid.
C22_GeneratedMeshesMatchState ==
    renderedTile.m_meshesGenerated =>
        /\ renderedTile.m_wallMeshes =
               {d \in WallDirections : ~renderedTile.walls[d].walkable}
        /\ renderedTile.m_topMesh = renderedTile.topSurface.solid

-----------------------------------------------------------------------------
(* Vehicle.cpp, Player.cpp: movement on the grid *)

\* bound: calls on the vehicle and the player in one behaviour
MaxSteps == 4

\* the product of two quantities in thousandths, to the nearest thousandth
Times(a, b) == (a * b + 500) \div 1000

\* the headings a vehicle is given, in thousandths of a degree
Headings == {0, 45000, 90000, 180000, 225000, 270000}

\* std::sin(glm::radians(degrees)) in thousandths
Sin(degrees) ==
    CASE degrees = 0 -> 0
      [] degrees = 45000 -> 707
      [] degrees = 90000 -> 1000
      [] degrees = 180000 -> 0
      [] degrees = 225000 -> -707
      [] degrees = 270000 -> -1000

\* std::cos(glm::radians(degrees)) in thousandths
Cos(degrees) ==
    CASE degrees = 0 -> 1000
      [] degrees = 45000 -> 707
      [] degrees = 90000 -> 0
      [] degrees = 180000 -> -1000
      [] degrees = 225000 -> -707
      [] degrees = 270000 -> 0

\* the frame times update and the controls are called with, in milliseconds
DeltaTimes == {16, 250}

\* Vehicle::m_acceleration, m_maxSpeed, m_maxSpeedRoad and Player::m_speed
VehicleAcceleration == 12000

VehicleMaxSpeed == 24000

VehicleMaxSpeedRoad == 36000

PlayerSpeed == 5000

\* TileGrid::isRoadTile(worldPos)
isRoadTile(worldPos) ==
    LET gridPos == worldToGrid(worldPos)
    IN  IF ~isValidPosition(gridPos[1], gridPos[2], gridPos[3]) THEN FALSE
        ELSE getTile(gridPos[1], gridPos[2], gridPos[3]).topSurface.carDirection # "None"

\* Vehicle::getCurrentMaxSpeed
getCurrentMaxSpeed(v) ==
    IF isRoadTile(v.m_position) THEN VehicleMaxSpeedRoad ELSE VehicleMaxSpeed

\* Vehicle::getCollisionOffsets: the four corners and the four edge centres
getCollisionOffsets(v) ==
    LET halfWidth == Times(v.m_size[1], 500)
        halfLength == Times(v.m_size[2], 500)
        forward == <<Times(Sin(v.m_rotation), halfLength), Times(Cos(v.m_rotation), halfLength)>>
        right == <<Times(Cos(v.m_rotation), halfWidth), Times(-Sin(v.m_rotation), halfWidth)>>
    IN  {<<forward[1] + right[1], forward[2] + right[2], 0>>,
         <<forward[1] - right[1], forward[2] - right[2], 0>>,
         <<-forward[1] + right[1], -forward[2] + right[2], 0>>,
         <<-forward[1] - right[1], -forward[2] - right[2], 0>>,
         <<forward[1], forward[2], 0>>,
         <<-forward[1], -forward[2], 0>>,
         <<right[1], right[2], 0>>,
         <<-right[1], -right[2], 0>>}

Plus(a, b) == <<a[1] + b[1], a[2] + b[2], a[3] + b[3]>>

\* Vehicle::canMoveTo with no grid attached
canMoveTo_NoGrid(v, from, to) == TRUE

\* Vehicle::canMoveTo: canOccupy for the centre and for each of the offsets
canMoveTo(v, from, to) ==
    /\ canOccupy(from, to)
    /\ \A offset \in getCollisionOffsets(v) :
           canOccupy(Plus(from, offset), Plus(to, offset))

\* Vehicle::update: damping, then the X step and the Y step, each applied
\* only when canMoveTo allows it; a rejected step sets m_speed to 0
UpdatedVehicle(v, deltaTime) ==
    LET damped == Times(v.m_speed, IF v.m_playerControlled THEN 985 ELSE 950)
        speed == IF Abs(damped) < 10 THEN 0 ELSE damped
        delta == <<Times(Times(Sin(v.m_rotation), speed), deltaTime),
                   Times(Times(Cos(v.m_rotation), speed), deltaTime)>>
        from == v.m_position
        candidateX == <<from[1] + delta[1], from[2], from[3]>>
        queryX == delta[1] # 0
        okX == canMoveTo(v, from, candidateX)
        startForY == IF queryX /\ okX THEN candidateX ELSE from
        speedX == IF queryX /\ ~okX THEN 0 ELSE speed
        candidateY == <<startForY[1], startForY[2] + delta[2], startForY[3]>>
        queryY == delta[2] # 0
        okY == canMoveTo(v, startForY, candidateY)
        newPosition == IF queryY /\ okY THEN candidateY ELSE startForY
        speedY == IF queryY /\ ~okY THEN 0 ELSE speedX
    IN  IF Abs(speed) > 10
          THEN [vehicle |-> [v EXCEPT !.m_position = newPosition, !.m_speed = speedY],
                moved |-> TRUE, delta |-> delta, from |-> from,
                queryX |-> queryX, okX |-> queryX /\ okX, startForY |-> startForY,
                queryY |-> queryY, okY |-> queryY /\ okY]
          ELSE [vehicle |-> [v EXCEPT !.m_speed = speed],
                moved |-> FALSE, delta |-> <<0, 0>>, from |-> from,
                queryX |-> FALSE, okX |-> FALSE, startForY |-> from,
                queryY |-> FALSE, okY |-> FALSE]

\* one call on the vehicle
VehicleCall(op, v, result) ==
    /\ initialized
    /\ steps < MaxSteps
    /\ steps' = steps + 1
    /\ vehicle' = v
    /\ lastOp' = op
    /\ q' = result
    /\ UNCHANGED <<gridVars, textureVars, renderedTile, player, inputVars,
                   selectionVars, sceneVars>>

update(deltaTime) ==
    LET r == UpdatedVehicle(vehicle, deltaTime)
    IN  VehicleCall("Vehicle::update", r.vehicle,
                    [op |-> "Vehicle::update", before |-> vehicle, moved |-> r.moved,
                     delta |-> r.delta, from |-> r.from,
                     queryX |-> r.queryX, okX |-> r.okX, startForY |-> r.startForY,
                     queryY |-> r.queryY, okY |-> r.okY])

\* Vehicle::moveForward
moveForward(deltaTime) ==
    LET speed == vehicle.m_speed + Times(VehicleAcceleration, deltaTime)
        maxSpeed == getCurrentMaxSpeed(vehicle)
    IN  VehicleCall("Vehicle::moveForward",
                    [vehicle EXCEPT !.m_speed = IF speed > maxSpeed THEN maxSpeed ELSE speed],
                    [op |-> "Vehicle::moveForward"])

\* Vehicle::moveBackward
moveBackward(deltaTime) ==
    LET speed == vehicle.m_speed - Times(VehicleAcceleration, deltaTime)
        maxSpeed == Times(getCurrentMaxSpeed(vehicle), 500)
    IN  VehicleCall("Vehicle::moveBackward",
                    [vehicle EXCEPT !.m_speed = IF speed < -maxSpeed THEN -maxSpeed ELSE speed],
                    [op |-> "Vehicle::moveBackward"])

\* GameObject::setRotation(0, 0, degrees)
setRotation(degrees) ==
    VehicleCall("setRotation", [vehicle EXCEPT !.m_rotation = degrees],
                [op |-> "setRotation"])

\* GameObject::setPosition, before the first call of a behaviour
setPosition(position) ==
    /\ steps = 0
    /\ VehicleCall("setPosition", [vehicle EXCEPT !.m_position = position],
                   [op |-> "setPosition"])

\* Vehicle::setPlayerControlled
setPlayerControlled(controlled) ==
    VehicleCall("setPlayerControlled", [vehicle EXCEPT !.m_playerControlled = controlled],
                [op |-> "setPlayerControlled"])

\* Player::moveForward, moveBackward, turnLeft, turnRight: the position
\* changes by m_speed * deltaTime along one axis, whatever the grid holds
PlayerMoves == {"Player::moveForward", "Player::moveBackward",
                "Player::turnLeft", "Player::turnRight"}

PlayerStep(op, deltaTime) ==
    LET d == Times(PlayerSpeed, deltaTime)
    IN  CASE op = "Player::moveForward" -> <<0, d, 0>>
          [] op = "Player::moveBackward" -> <<0, -d, 0>>
          [] op = "Player::turnLeft" -> <<-d, 0, 0>>
          [] op = "Player::turnRight" -> <<d, 0, 0>>

PlayerMove(op, deltaTime) ==
    /\ initialized
    /\ steps < MaxSteps
    /\ steps' = steps + 1
    /\ player' = [player EXCEPT !.m_position = Plus(@, PlayerStep(op, deltaTime))]
    /\ lastOp' = op
    /\ q' = [op |-> op, from |-> player.m_position, delta |-> PlayerStep(op, deltaTime)]
    /\ UNCHANGED <<gridVars, textureVars, renderedTile, vehicle, inputVars,
                   selectionVars, sceneVars>>

\* a level of 3 x 3 x 2 cells: a solid floor with a hole under (2, 0, 1),
\* and a blocked east wall on (1, 1, 1)
DriveSize == <<3, 3, 2>>

DriveTiles ==
    [i \in 1..18 |->
        LET pos == PosOfIndex(DriveSize, i - 1)
        IN  IF pos[3] = 0 /\ pos # <<2, 0, 0>>
              THEN setTopSurface(NewTile(pos), TRUE, "assets/textures/grass.png", "None")
            ELSE IF pos = <<1, 1, 1>>
              THEN setWall(NewTile(pos), East, FALSE, "assets/textures/wall.png")
            ELSE NewTile(pos)]

\* the positions a vehicle is put at before it drives: 0.1 above the floor
\* of the cells (1, 1, 1) and (1, 0, 1)
StartPositions == {<<3000, 3000, 100>>, <<3000, 0, 100>>}

InitDrive ==
    /\ constructed = TRUE
    /\ initialized = TRUE
    /\ m_gridSize = DriveSize
    /\ m_tiles = DriveTiles
    /\ m_tileSize = DefaultTileSize
    /\ m_textureAliases = DefaultAliases
    /\ vehicleSpawns = << >>
    /\ m_vehicleSpawns = << >>
    /\ edits = 0
    /\ lastOp = "init"
    /\ q = NoQuery
    /\ InitOther

NextDrive ==
    \/ \E deltaTime \in DeltaTimes : update(deltaTime)
    \/ moveForward(500)
    \/ moveBackward(500)
    \/ \E degrees \in Headings : setRotation(degrees)
    \/ setPlayerControlled(TRUE)
    \/ \E position \in StartPositions : setPosition(position)
    \/ \E op \in PlayerMoves : PlayerMove(op, 500)

SpecDrive == InitDrive /\ [][NextDrive]_vars

-----------------------------------------------------------------------------
(* Claims about movement *)

\* the world position lies in an in-bounds cell that has ground support
OnSupportedCell(worldPos) ==
    /\ InBoundsOf(m_gridSize, worldToGrid(worldPos))
    /\ SupportedCell(worldToGrid(worldPos))

\* C23: the vehicle and the player both move by an X sub-query followed by a
\* Y sub-query of canOccupy, each axis applied only when its query succeeds:
\* after a vehicle update the Y query started from the position the X step
\* reached, and a player move changes the position only when canOccupy
\* allows the step.
C23_MoversQueryEachAxis ==
    /\ (lastOp = "Vehicle::update" /\ q.moved) =>
           /\ q.startForY = (IF q.okX THEN Plus(q.from, <<q.delta[1], 0, 0>>) ELSE q.from)
           /\ vehicle.m_position =
                  (IF q.okY THEN Plus(q.startForY, <<0, q.delta[2], 0>>) ELSE q.startForY)
    /\ lastOp \in PlayerMoves =>
           (player.m_position # q.from => canOccupy(q.from, player.m_position))

\* the centre and the eight footprint offsets may all take the step
FootprintMayStep(v, from, to) ==
    /\ canOccupy(from, to)
    /\ \A offset \in getCollisionOffsets(v) :
           canOccupy(Plus(from, offset), Plus(to, offset))

\* C25: on an unchanged grid a vehicle that starts on an in-bounds cell with
\* ground support stays on such cells through any sequence of updates; an
\* axis step is applied only when canOccupy holds for the centre and the
\* eight offsets, and a rejected step keeps that coordinate and sets the
\* speed to 0.
C25_VehicleStaysOnSupportedCells ==
    /\ OnSupportedCell(vehicle.m_position)
    /\ (lastOp = "Vehicle::update" /\ q.moved) =>
           /\ q.startForY[1] # q.from[1] =>
                  FootprintMayStep(q.before, q.from, q.startForY)
           /\ vehicle.m_position[2] # q.startForY[2] =>
                  FootprintMayStep(q.before, q.startForY, vehicle.m_position)
           /\ (q.queryX /\ ~q.okX) =>
                  (q.startForY = q.from /\ vehicle.m_speed = 0)
           /\ (q.queryY /\ ~q.okY) =>
                  (vehicle.m_position = q.startForY /\ vehicle.m_speed = 0)

\* an update whose X step was rejected, the front of the vehicle being at a
\* blocked wall, and whose Y step was applied
C25_Witness ==
    /\ lastOp = "Vehicle::update"
    /\ q.moved
    /\ q.queryX /\ ~q.okX
    /\ q.okY
    /\ vehicle.m_position[1] = q.from[1]
    /\ vehicle.m_position[2] # q.from[2]
    /\ vehicle.m_speed = 0

-----------------------------------------------------------------------------
(* TileGridEditor.cpp: the selection and the move of the selected tiles *)

\* bound: the largest component of m_moveOffset the model follows
MaxOffset == 1

\* bound: applyMove calls in one behaviour
MaxMoves == 1

\* the tile of a tile array at a position inside size
TileIn(tiles, size, pos) == tiles[IndexIn(size, pos[1], pos[2], pos[3]) + 1]

\* setTopSurface(false, "", None) and setWall(i, true) for the four walls
ClearedTile(tile) ==
    [setTopSurface(tile, FALSE, "", "None") EXCEPT
        !.walls = [d \in WallDirections |-> [walkable |-> TRUE, texturePath |-> ""]]]

\* a move that copies and clears the selected tiles one after the other,
\* without the copies applyMove takes first
RECURSIVE MovedTiles_InPlace(_, _, _, _)
MovedTiles_InPlace(tiles, size, selection, offset) ==
    IF selection = << >> THEN tiles
    ELSE LET oldPos == Head(selection)
             newPos == Plus(oldPos, offset)
             source == TileIn(tiles, size, oldPos)
             cleared == [tiles EXCEPT ![IndexIn(size, oldPos[1], oldPos[2], oldPos[3]) + 1] =
                             ClearedTile(@)]
             placed == IF ValidIn(size, newPos[1], newPos[2], newPos[3])
                         THEN [cleared EXCEPT
                                  ![IndexIn(size, newPos[1], newPos[2], newPos[3]) + 1] =
                                      copyFrom(@, source)]
                         ELSE cleared
         IN  MovedTiles_InPlace(placed, size, Tail(selection), offset)

\* the tile array applyMove leaves: every selected tile is copied first, then
\* every selected tile is cleared, then each copy whose destination is valid
\* is written to its destination
MovedTiles(tiles, size, selection, offset) ==
    LET selected == {selection[k] : k \in DOMAIN selection}
        cleared == [i \in DOMAIN tiles |->
                       IF PosOfIndex(size, i - 1) \in selected
                         THEN ClearedTile(tiles[i]) ELSE tiles[i]]
    IN  [i \in DOMAIN tiles |->
            LET newPos == PosOfIndex(size, i - 1)
                oldPos == <<newPos[1] - offset[1], newPos[2] - offset[2],
                            newPos[3] - offset[3]>>
            IN  IF oldPos \in selected
                  THEN copyFrom(cleared[i], TileIn(tiles, size, oldPos))
                  ELSE cleared[i]]

\* newSelection: the valid destinations, in the order of the selection
RECURSIVE NewSelection(_, _, _)
NewSelection(size, selection, offset) ==
    IF selection = << >> THEN << >>
    ELSE LET newPos == Plus(Head(selection), offset)
         IN  (IF ValidIn(size, newPos[1], newPos[2], newPos[3]) THEN <<newPos>> ELSE << >>)
                 \o NewSelection(size, Tail(selection), offset)

\* TileGridEditor::isSelected
isSelected(pos) == \E k \in DOMAIN m_selectedTiles : m_selectedTiles[k] = pos

\* one call on the editor's selection that leaves the grid alone
SelectionCall(op, selection, moveMode, moveOffset) ==
    /\ initialized
    /\ m_selectedTiles' = selection
    /\ m_moveMode' = moveMode
    /\ m_moveOffset' = moveOffset
    /\ lastOp' = op
    /\ q' = [op |-> op]
    /\ UNCHANGED <<gridVars, textureVars, renderedTile, moverVars, inputVars, sceneVars>>

\* TileGridEditor::addToSelection
addToSelection(pos) ==
    SelectionCall("addToSelection",
                  IF isValidPosition(pos[1], pos[2], pos[3]) /\ ~isSelected(pos)
                    THEN Append(m_selectedTiles, pos) ELSE m_selectedTiles,
                  m_moveMode, m_moveOffset)

\* TileGridEditor::clearSelection
clearSelection ==
    SelectionCall("clearSelection", << >>, FALSE, m_moveOffset)

\* TileGridEditor::startMove
startMove ==
    IF m_selectedTiles = << >>
      THEN SelectionCall("startMove", m_selectedTiles, m_moveMode, m_moveOffset)
      ELSE SelectionCall("startMove", m_selectedTiles, TRUE, <<0, 0, 0>>)

\* handleSelectionHotkeys: a key that changes m_moveOffset in move mode
adjustMoveOffset(step) ==
    /\ m_moveMode
    /\ \A i \in 1..3 : Abs(m_moveOffset[i] + step[i]) <= MaxOffset
    /\ SelectionCall("adjustMoveOffset", m_selectedTiles, m_moveMode,
                     Plus(m_moveOffset, step))

\* TileGridEditor::applyMove
applyMove(offset) ==
    /\ initialized
    /\ edits < MaxMoves
    /\ lastOp' = "applyMove"
    /\ q' = [op |-> "applyMove", offset |-> offset, selection |-> m_selectedTiles,
             tiles |-> m_tiles, moveMode |-> m_moveMode]
    /\ edits' = edits + 1
    /\ IF m_selectedTiles = << >> \/ offset = <<0, 0, 0>>
         THEN UNCHANGED <<m_tiles, selectionVars>>
         ELSE /\ m_tiles' = MovedTiles(m_tiles, m_gridSize, m_selectedTiles, offset)
              /\ m_selectedTiles' = NewSelection(m_gridSize, m_selectedTiles, offset)
              /\ m_moveMode' = FALSE
              /\ m_moveOffset' = <<0, 0, 0>>
    /\ UNCHANGED <<constructed, initialized, m_gridSize, m_tileSize, m_textureAliases,
                   vehicleSpawns, m_vehicleSpawns>>
    /\ UNCHANGED <<textureVars, renderedTile, moverVars, inputVars, sceneVars>>

\* a level of 3 x 1 x 2 cells whose tiles all differ
MoveSize == <<3, 1, 2>>

MoveTiles ==
    [i \in 1..6 |->
        LET pos == PosOfIndex(MoveSize, i - 1)
        IN  CASE pos = <<0, 0, 0>> ->
                   setTopSurface(NewTile(pos), TRUE, "assets/textures/grass.png", "None")
              [] pos = <<1, 0, 0>> ->
                   setWall(setTopSurface(NewTile(pos), TRUE, "assets/textures/road.png",
                                         "NorthSouth"),
                           North, FALSE, "assets/textures/wall.png")
              [] pos = <<2, 0, 0>> ->
                   setTopSurface(NewTile(pos), TRUE, "assets/textures/road.png", "East")
              [] pos = <<0, 0, 1>> ->
                   setWall(NewTile(pos), East, FALSE, "assets/textures/wall.png")
              [] OTHER -> NewTile(pos)]

\* the positions the selection is built from; the last one is outside the grid
SelectablePositions == {<<0, 0, 0>>, <<1, 0, 0>>, <<0, 0, 1>>, <<3, 0, 0>>}

\* the steps of m_moveOffset: the keys right, left and E
OffsetSteps == {<<1, 0, 0>>, <<-1, 0, 0>>, <<0, 0, 1>>}

InitMove ==
    /\ constructed = TRUE
    /\ initialized = TRUE
    /\ m_gridSize = MoveSize
    /\ m_tiles = MoveTiles
    /\ m_tileSize = DefaultTileSize
    /\ m_textureAliases = DefaultAliases
    /\ vehicleSpawns = << >>
    /\ m_vehicleSpawns = << >>
    /\ edits = 0
    /\ lastOp = "init"
    /\ q = NoQuery
    /\ InitOther

NextMove ==
    \/ \E pos \in SelectablePositions : addToSelection(pos)
    \/ clearSelection
    \/ startMove
    \/ \E step \in OffsetSteps : adjustMoveOffset(step)
    \/ m_moveMode /\ applyMove(m_moveOffset)

SpecMove == InitMove /\ [][NextMove]_vars

-----------------------------------------------------------------------------
(* Claims about the move of the selection *)

Selected(selection) == {selection[k] : k \in DOMAIN selection}

\* the valid destinations of the selected positions
Destinations(size, selection, offset) ==
    {Plus(p, offset) : p \in {s \in Selected(selection) :
                                InBoundsOf(size, Plus(s, offset))}}

\* an applyMove that had a selection and an offset other than zero
Moved ==
    /\ lastOp = "applyMove"
    /\ q.selection # << >>
    /\ q.offset # <<0, 0, 0>>

\* C29: after applyMove with a non-zero offset, overlapping or not, every
\* valid destination p + offset holds the walls and the top that p held
\* before, every selected position that is no destination is in the default
\* state, the selection is the set of valid destinations, and move mode is off.
C29_MoveRelocatesContent ==
    Moved =>
        /\ \A p \in Selected(q.selection) :
               InBoundsOf(m_gridSize, Plus(p, q.offset)) =>
                   SameTileContent(TileIn(m_tiles, m_gridSize, Plus(p, q.offset)),
                                   TileIn(q.tiles, m_gridSize, p))
        /\ \A p \in Selected(q.selection) :
               p \notin Destinations(m_gridSize, q.selection, q.offset) =>
                   SameTileContent(TileIn(m_tiles, m_gridSize, p), NewTile(p))
        /\ Selected(m_selectedTiles) = Destinations(m_gridSize, q.selection, q.offset)
        /\ ~m_moveMode

\* a move by one cell of two neighbouring tiles: the destination of the first
\* is the second, which is selected too, and the destination of the second
\* is a third tile
C29_Witness ==
    /\ Moved
    /\ q.offset = <<1, 0, 0>>
    /\ Selected(q.selection) = {<<0, 0, 0>>, <<1, 0, 0>>}
    /\ TileIn(m_tiles, m_gridSize, <<2, 0, 0>>).topSurface.carDirection = "NorthSouth"
    /\ TileIn(m_tiles, m_gridSize, <<1, 0, 0>>).topSurface.texturePath
           = "assets/textures/grass.png"
    /\ ~TileIn(m_tiles, m_gridSize, <<0, 0, 0>>).topSurface.solid

-----------------------------------------------------------------------------
(* Scene.cpp: the vehicles of the scene, edit mode, entering and leaving *)

\* bound: processInput frames in one behaviour
MaxFrames == 5

\* the default radius of tryEnterNearestVehicle, 2.0f
EnterRadius == 2000

\* the scene's fields as one record
CurrentScene ==
    [m_enabled |-> m_enabled, m_playerInVehicle |-> m_playerInVehicle,
     m_activeVehicle |-> m_activeVehicle, m_vehicles |-> m_vehicles, player |-> player]

\* the vehicle rebuildVehiclesFromSpawns makes of a spawn: the grid position
\* times the tile size, and 0.1 added to z
SpawnedVehicle(spawn, tileSize) ==
    [NewVehicle EXCEPT
        !.m_size = spawn.size,
        !.m_position = <<spawn.gridPosition[1] * tileSize,
                         spawn.gridPosition[2] * tileSize,
                         spawn.gridPosition[3] * tileSize + 100>>,
        !.m_rotation = spawn.rotationDegrees]

\* Scene::rebuildVehiclesFromSpawns
rebuildVehiclesFromSpawns(scene, spawns, tileSize) ==
    [scene EXCEPT
        !.m_playerInVehicle = FALSE,
        !.m_activeVehicle = 0,
        !.m_vehicles = [k \in DOMAIN spawns |-> SpawnedVehicle(spawns[k], tileSize)]]

\* the square of the distance in the plane between two positions
DistanceSquared(a, b) ==
    (a[1] - b[1]) * (a[1] - b[1]) + (a[2] - b[2]) * (a[2] - b[2])

\* the loop of tryEnterNearestVehicle: the index of the nearest vehicle within
\* the radius, the later one of two at the same distance, 0 when there is none
RECURSIVE NearestVehicle(_, _, _, _, _)
NearestVehicle(vehicles, k, playerPos, nearest, nearestSquared) ==
    IF k > Len(vehicles) THEN nearest
    ELSE IF DistanceSquared(vehicles[k].m_position, playerPos) <= nearestSquared
      THEN NearestVehicle(vehicles, k + 1, playerPos, k,
                          DistanceSquared(vehicles[k].m_position, playerPos))
    ELSE NearestVehicle(vehicles, k + 1, playerPos, nearest, nearestSquared)

\* Scene::tryEnterNearestVehicle
tryEnterNearestVehicle(scene) ==
    LET nearest == NearestVehicle(scene.m_vehicles, 1, scene.player.m_position, 0,
                                  EnterRadius * EnterRadius)
    IN  IF scene.m_playerInVehicle \/ nearest = 0 THEN scene
        ELSE [scene EXCEPT
                 !.m_playerInVehicle = TRUE,
                 !.m_activeVehicle = nearest,
                 !.m_vehicles[nearest].m_playerControlled = TRUE,
                 !.player.m_position = scene.m_vehicles[nearest].m_position]

\* Scene::leaveVehicle
leaveVehicle(scene) ==
    IF ~scene.m_playerInVehicle \/ scene.m_activeVehicle = 0 THEN scene
    ELSE [scene EXCEPT
             !.m_playerInVehicle = FALSE,
             !.player.m_position = scene.m_vehicles[scene.m_activeVehicle].m_position,
             !.m_vehicles[scene.m_activeVehicle].m_playerControlled = FALSE,
             !.m_activeVehicle = 0]

\* Scene::toggleEditMode without the check of m_playerInVehicle
toggleEditMode_InVehicleToo(scene, spawns, tileSize) ==
    IF ~scene.m_enabled THEN [scene EXCEPT !.m_enabled = TRUE]
    ELSE rebuildVehiclesFromSpawns([scene EXCEPT !.m_enabled = FALSE], spawns, tileSize)

\* Scene::toggleEditMode: refused in a vehicle; leaving edit mode rebuilds
\* the vehicles
toggleEditMode(scene, spawns, tileSize) ==
    IF scene.m_playerInVehicle THEN scene
    ELSE IF ~scene.m_enabled THEN [scene EXCEPT !.m_enabled = TRUE]
    ELSE rebuildVehiclesFromSpawns([scene EXCEPT !.m_enabled = FALSE], spawns, tileSize)

\* the keys a frame can find pressed
SceneKeys == {"F1", "ENTER", "F"}

\* Scene::processInput with the keys in pressed and no key held down: F1
\* first; in edit mode the editor gets the input and nothing else happens;
\* otherwise Enter, then F
ProcessedScene(scene, pressed, spawns, tileSize) ==
    LET toggled == IF "F1" \in pressed THEN toggleEditMode(scene, spawns, tileSize)
                   ELSE scene
        entered == IF "ENTER" \in pressed /\ ~toggled.m_playerInVehicle
                     THEN tryEnterNearestVehicle(toggled) ELSE toggled
        left == IF "F" \in pressed /\ entered.m_playerInVehicle
                  THEN leaveVehicle(entered) ELSE entered
    IN  IF toggled.m_enabled THEN toggled ELSE left

\* the scene's fields take the values of the record
SceneBecomes(scene) ==
    /\ m_enabled' = scene.m_enabled
    /\ m_playerInVehicle' = scene.m_playerInVehicle
    /\ m_activeVehicle' = scene.m_activeVehicle
    /\ m_vehicles' = scene.m_vehicles
    /\ player' = scene.player

\* Scene::processInput.  In edit mode TileGridEditor::processInput runs; with
\* Enter pressed in move mode it applies the move, which the scene never
\* starts here.
processInput(pressed) ==
    /\ initialized
    /\ lastOp # "init"
    /\ steps < MaxFrames
    /\ steps' = steps + 1
    /\ SceneBecomes(ProcessedScene(CurrentScene, pressed, vehicleSpawns, m_tileSize))
    /\ lastOp' = "Scene::processInput"
    /\ q' = [op |-> "Scene::processInput", pressed |-> pressed, before |-> CurrentScene,
             rebuilt |-> "F1" \in pressed /\ m_enabled /\ ~m_playerInVehicle]
    /\ UNCHANGED <<gridVars, textureVars, renderedTile, vehicle, inputVars, selectionVars>>

\* Scene::createTestScene: loadLevel of the level file, then
\* rebuildVehiclesFromSpawns, whether the load succeeded or not
createTestScene(file) ==
    LET r == loadLevel(file, CurrentWorld)
    IN  /\ initialized
        /\ lastOp = "init"
        /\ m_gridSize' = r.world.gridSize
        /\ m_tileSize' = r.world.tileSize
        /\ m_tiles' = r.world.tiles
        /\ m_textureAliases' = r.world.aliases
        /\ vehicleSpawns' = r.world.spawns
        /\ m_vehicleSpawns' = IF file.openable /\ SizeIsValid(r.world.gridSize)
                              THEN << >> ELSE m_vehicleSpawns
        /\ SceneBecomes(rebuildVehiclesFromSpawns(CurrentScene, r.world.spawns,
                                                  r.world.tileSize))
        /\ lastOp' = "createTestScene"
        /\ q' = [op |-> "createTestScene", file |-> file, result |-> r.result,
                 rebuilt |-> TRUE]
        /\ UNCHANGED <<constructed, initialized, edits>>
        /\ UNCHANGED <<textureVars, renderedTile, vehicle, steps, inputVars, selectionVars>>

\* the level files of the scene: a floor with a vehicle on it, at the player
\* or one cell away; a floor and a solid tile on the upper layer with a
\* vehicle on that tile; a floor and no vehicle; a file that cannot be opened
SceneFloor ==
    FillLine(<<RangeTok("x", 0, 1), RangeTok("y", 0, 0), RangeTok("z", 0, 0),
               Tok("top", "solid", "grass")>>)

SceneFiles ==
    {MissingFile,
     File(<<SceneFloor>>),
     File(<<SceneFloor, VehicleLine(0, 0, 0, << >>)>>),
     File(<<SceneFloor, VehicleLine(1, 0, 0, <<NumTok("rotation", 90000)>>),
            VehicleLine(0, 0, 0, << >>)>>),
     File(<<SceneFloor, TileLine(0, 0, 1, <<Tok("top", "solid", "road")>>),
            VehicleLine(0, 0, 1, << >>)>>)}

\* the vehicle brush of the editor, applied at the cursor while edit mode is on
SceneBrushCursors == {<<0, 0, 0>>, <<1, 0, 0>>}

NextScene ==
    \/ \E file \in SceneFiles : createTestScene(file)
    \/ \E pressed \in SUBSET SceneKeys : processInput(pressed)
    \/ /\ m_enabled
       /\ \E cursor \in SceneBrushCursors, removeMode \in BOOLEAN :
              applyVehicleBrush(cursor, removeMode, CHOOSE b \in BrushSettings : b.size[1] > 0)

SpecScene == InitSession /\ [][NextScene]_vars

-----------------------------------------------------------------------------
(* Claims about the vehicles of the scene *)

\* the operation that ran last ended with rebuildVehiclesFromSpawns
Rebuilt == lastOp \in {"createTestScene", "Scene::processInput"} /\ q.rebuilt

\* the spawn is one the parser and the editor accept: inside the grid, on a
\* tile with a solid top
AcceptableSpawn(spawn) ==
    /\ InBoundsOf(m_gridSize, spawn.gridPosition)
    /\ TileOf(spawn.gridPosition).topSurface.solid

\* C26: right after rebuildVehiclesFromSpawns, every vehicle made of a spawn
\* that lies inside the grid on a tile with a solid top, on any layer, is at
\* a world position p with canOccupy(p, p).
C26_RebuiltVehiclesCanOccupy ==
    Rebuilt =>
        \A k \in DOMAIN m_vehicles :
            (k \in DOMAIN vehicleSpawns /\ AcceptableSpawn(vehicleSpawns[k])) =>
                canOccupy(m_vehicles[k].m_position, m_vehicles[k].m_position)

\* C30: through any sequence of Scene::processInput calls, edit mode and
\* being in a vehicle never hold together, and m_playerInVehicle is true
\* exactly when m_activeVehicle is set; F1 in a vehicle leaves edit mode off,
\* Enter in edit mode enters no vehicle, and leaving edit mode resets both
\* fields.
C30_EditModeExcludesVehicle ==
    /\ ~(m_enabled /\ m_playerInVehicle)
    /\ m_playerInVehicle <=> m_activeVehicle # 0
    /\ lastOp = "Scene::processInput" =>
           /\ (q.before.m_playerInVehicle /\ "F1" \in q.pressed) => ~m_enabled
           /\ (m_enabled /\ "ENTER" \in q.pressed) =>
                  (~m_playerInVehicle /\ m_activeVehicle = 0)
           /\ (q.rebuilt /\ "ENTER" \notin q.pressed) =>
                  (~m_playerInVehicle /\ m_activeVehicle = 0)

\* F1 pressed while the player sits in a vehicle: edit mode stays off and the
\* player stays in the vehicle
C30_Witness ==
    /\ lastOp = "Scene::processInput"
    /\ q.pressed = {"F1"}
    /\ q.before.m_playerInVehicle
    /\ m_playerInVehicle
    /\ m_activeVehicle # 0
    /\ ~m_enabled

-----------------------------------------------------------------------------
(* InputManager.cpp, Engine.cpp: key callbacks and the frames that read them *)

\* bound: key events and frames in one behaviour
MaxEvents == 4

\* the keys the callbacks report
Keys == {"ENTER", "ESCAPE", "W"}

\* GLFW_PRESS, GLFW_RELEASE, GLFW_REPEAT
KeyActions == {"PRESS", "RELEASE", "REPEAT"}

\* m_deltaTime of a frame, in milliseconds
FrameTime == 16

CurrentInput == [m_keys |-> m_keys, m_keysPressed |-> m_keysPressed]

\* a keyCallback whose release branch clears the pressed flag as well
keyCallback_ReleaseClearsPressed(input, key, action) ==
    IF action = "PRESS"
      THEN [m_keys |-> input.m_keys \cup {key},
            m_keysPressed |-> input.m_keysPressed \cup {key}]
    ELSE IF action = "RELEASE"
      THEN [m_keys |-> input.m_keys \ {key},
            m_keysPressed |-> input.m_keysPressed \ {key}]
    ELSE input

\* InputManager::keyCallback: a press sets m_keys[key] and m_keysPressed[key],
\* a release clears m_keys[key], a repeat changes nothing
keyCallback(input, key, action) ==
    IF action = "PRESS"
      THEN [m_keys |-> input.m_keys \cup {key},
            m_keysPressed |-> input.m_keysPressed \cup {key}]
    ELSE IF action = "RELEASE"
      THEN [input EXCEPT !.m_keys = input.m_keys \ {key}]
    ELSE input

\* InputManager::isKeyDown, isKeyPressed
isKeyDown(input, key) == key \in input.m_keys

isKeyPressed(input, key) == key \in input.m_keysPressed

\* InputManager::clearPressed
clearPressed(input) == [input EXCEPT !.m_keysPressed = {}]

\* m_running: no frame so far has found Escape pressed
Running ==
    \A i \in DOMAIN inputLog :
        inputLog[i].kind = "FRAME" => "ESCAPE" \notin inputLog[i].pressed

\* glfwPollEvents delivers one key event
KeyEvent(key, action) ==
    /\ Running
    /\ Len(inputLog) < MaxEvents
    /\ m_keys' = keyCallback(CurrentInput, key, action).m_keys
    /\ m_keysPressed' = keyCallback(CurrentInput, key, action).m_keysPressed
    /\ inputLog' = Append(inputLog, [kind |-> action, key |-> key])
    /\ lastOp' = "keyCallback"
    /\ q' = [op |-> "keyCallback", key |-> key, action |-> action]
    /\ UNCHANGED <<gridVars, textureVars, renderedTile, moverVars, selectionVars, sceneVars>>

\* Engine::processInput with a scene: Escape, Enter, then the player's
\* movement when the player is in no vehicle, and clearPressed on every path
EngineProcessInput ==
    LET input == CurrentInput
        entered == IF isKeyPressed(input, "ENTER")
                     THEN tryEnterNearestVehicle(CurrentScene) ELSE CurrentScene
        moved == IF ~entered.m_playerInVehicle /\ isKeyDown(input, "W")
                   THEN [entered EXCEPT !.player.m_position =
                            Plus(@, <<0, Times(PlayerSpeed, FrameTime), 0>>)]
                   ELSE entered
    IN  /\ Running
        /\ Len(inputLog) < MaxEvents
        /\ SceneBecomes(moved)
        /\ m_keys' = clearPressed(input).m_keys
        /\ m_keysPressed' = clearPressed(input).m_keysPressed
        /\ inputLog' = Append(inputLog,
               [kind |-> "FRAME",
                pressed |-> {k \in Keys : isKeyPressed(input, k)},
                down |-> {k \in Keys : isKeyDown(input, k)}])
        /\ lastOp' = "Engine::processInput"
        /\ q' = [op |-> "Engine::processInput"]
        /\ UNCHANGED <<gridVars, textureVars, renderedTile, vehicle, steps, selectionVars>>

NextInput ==
    \/ \E key \in Keys, action \in KeyActions : KeyEvent(key, action)
    \/ EngineProcessInput

SpecInput == InitSession /\ [][NextInput]_vars

-----------------------------------------------------------------------------
(* Claims about the key state *)

\* the last frame before entry i of the log, 0 when there is none
PreviousFrame(i) ==
    LET frames == {j \in 1..(i - 1) : inputLog[j].kind = "FRAME"}
    IN  IF frames = {} THEN 0 ELSE CHOOSE j \in frames : \A k \in frames : k <= j

\* the keys with a press event between the previous frame and entry i
PressedSince(i) ==
    {k \in Keys : \E j \in (PreviousFrame(i) + 1)..(i - 1) :
                      inputLog[j].kind = "PRESS" /\ inputLog[j].key = k}

\* the keys whose last press or release before entry i is a press
HeldBefore(i) ==
    {k \in Keys :
        \E j \in 1..(i - 1) :
            /\ inputLog[j].kind = "PRESS" /\ inputLog[j].key = k
            /\ \A l \in (j + 1)..(i - 1) :
                   ~(inputLog[l].kind = "RELEASE" /\ inputLog[l].key = k)}

\* C24: for any interleaving of key callbacks and Engine::processInput
\* frames, isKeyPressed(k) is true in a frame exactly when k was pressed since
\* the previous frame, a release before the frame notwithstanding, so a press
\* is seen by one frame and by no later one; isKeyDown(k) is true from the
\* press until the release.
C24_PressedLastsOneFrame ==
    /\ \A i \in DOMAIN inputLog :
           inputLog[i].kind = "FRAME" =>
               /\ inputLog[i].pressed = PressedSince(i)
               /\ inputLog[i].down = HeldBefore(i)
    /\ m_keysPressed = PressedSince(Len(inputLog) + 1)
    /\ m_keys = HeldBefore(Len(inputLog) + 1)

\* W pressed and released before the first frame, which finds it pressed and
\* not down; the second frame finds it neither
C24_Witness ==
    /\ Len(inputLog) = 4
    /\ inputLog[1] = [kind |-> "PRESS", key |-> "W"]
    /\ inputLog[2] = [kind |-> "RELEASE", key |-> "W"]
    /\ inputLog[3] = [kind |-> "FRAME", pressed |-> {"W"}, down |-> {}]
    /\ inputLog[4] = [kind |-> "FRAME", pressed |-> {}, down |-> {}]

-----------------------------------------------------------------------------
(* Claims about the order of the lines in the second pass *)

\* line k is a vehicle line whose coordinates and properties parse without a
\* message and whose position is inside the grid
WellFormedVehicleLine(k) ==
    /\ q.file.lines[k].cmd = "vehicle"
    /\ q.file.lines[k].ok
    /\ LineSpawn(k).parseOk
    /\ LineSpawn(k).errors = << >>
    /\ InBoundsOf(m_gridSize, q.file.lines[k].coords)

\* loadLevel logged an error for line k
RejectedLine(k) == \E e \in DOMAIN q.errors : q.errors[e] = k

\* C27: in the second pass a vehicle line is accepted iff its tile has a
\* solid top after exactly the tile and fill lines that precede it in the
\* file; a vehicle line before the line that makes its tile solid is
\* rejected although the loaded grid has a solid tile there.
C27_VehicleLineSeesPrecedingLines ==
    (Loaded /\ q.result) =>
        \A k \in DOMAIN q.file.lines :
            WellFormedVehicleLine(k) =>
                /\ RejectedLine(k) <=> ~SupportedWhenReached(k)
                /\ SupportedWhenReached(k) =>
                       HasSpawnAt(vehicleSpawns, q.file.lines[k].coords)
                /\ HasSpawnAt(vehicleSpawns, q.file.lines[k].coords) =>
                       \E j \in DOMAIN q.file.lines :
                           /\ q.file.lines[j].cmd = "vehicle"
                           /\ q.file.lines[j].coords = q.file.lines[k].coords
                           /\ SupportedWhenReached(j)

\* a vehicle line first and the tile line that makes its tile solid second:
\* the vehicle line is rejected, the loaded tile is solid, no spawn exists
C27_Witness ==
    /\ Loaded /\ q.result
    /\ Len(q.file.lines) = 2
    /\ WellFormedVehicleLine(1)
    /\ q.file.lines[2].cmd = "tile"
    /\ q.file.lines[2].coords = q.file.lines[1].coords
    /\ RejectedLine(1)
    /\ TileOf(q.file.lines[1].coords).topSurface.solid
    /\ vehicleSpawns = << >>

-----------------------------------------------------------------------------
(* Claims about the keys of tile and fill lines *)

CarKeys == {"car", "cardirection", "traffic"}

\* the line has a key=value token with one of the keys
HasKey(tokens, keys) == \E t \in DOMAIN tokens : tokens[t].eq /\ tokens[t].key \in keys

\* the keys that name the wall d
WallKeys(d) == {key \in TilePropertyKeys : wallKeyToIndex(key) = d}

\* the cells line k of the loaded file is applied to: the in-bounds cell of a
\* tile line all of whose tokens parse, the in-bounds box of a fill line with
\* valid ranges whose properties parse
AppliedTo(k) ==
    LET line == q.file.lines[k]
    IN  IF line.cmd = "tile"
          THEN IF /\ line.ok
                  /\ \A t \in DOMAIN line.tokens : line.tokens[t].eq
                  /\ KeysOf(line.tokens, k).parseOk
                 THEN {line.coords} \cap Cells(m_gridSize) ELSE {}
        ELSE IF line.cmd = "fill"
          THEN IF CarriesValidRanges(line.tokens) /\ KeysOf(line.tokens, k).parseOk
                 THEN BoxOf(line.tokens) ELSE {}
        ELSE {}

\* the tile of cell c after the first k lines of the loaded file
TileAfter(k, c) == ParsedUpTo(k).tiles[IndexIn(m_gridSize, c[1], c[2], c[3]) + 1]

\* C28: a tile or fill line with a top= key sets the car direction of its
\* cells to None unless it has a car= key too; a line without top= leaves the
\* solid flag and the texture of the top unchanged, and a line without the
\* key of a wall leaves that wall unchanged.
C28_TopResetsCarDirection ==
    (Loaded /\ q.result) =>
        /\ m_tiles = ParsedUpTo(Len(q.file.lines)).tiles
        /\ \A k \in DOMAIN q.file.lines :
               \A c \in AppliedTo(k) :
                   LET tokens == q.file.lines[k].tokens
                       before == TileAfter(k - 1, c)
                       after == TileAfter(k, c)
                   IN  /\ (HasKey(tokens, {"top"}) /\ ~HasKey(tokens, CarKeys)) =>
                              after.topSurface.carDirection = "None"
                       /\ HasKey(tokens, CarKeys) =>
                              after.topSurface.carDirection
                                  = KeysOf(tokens, k).config.carDirection
                       /\ ~HasKey(tokens, {"top"}) =>
                              /\ after.topSurface.solid = before.topSurface.solid
                              /\ after.topSurface.texturePath = before.topSurface.texturePath
                       /\ (~HasKey(tokens, {"top"}) /\ ~HasKey(tokens, CarKeys)) =>
                              after.topSurface.carDirection = before.topSurface.carDirection
                       /\ \A d \in WallDirections :
                              ~HasKey(tokens, WallKeys(d)) => after.walls[d] = before.walls[d]

\* a tile line with top= and car= followed by a fill line with top= alone on
\* the same cell: the car direction of the first line is gone, and the two
\* lines in the other order would leave another tile
C28_Witness ==
    /\ Loaded /\ q.result
    /\ Len(q.file.lines) = 2
    /\ q.file.lines[1].cmd = "tile"
    /\ q.file.lines[2].cmd = "fill"
    /\ AppliedTo(1) = {<<0, 0, 0>>}
    /\ <<0, 0, 0>> \in AppliedTo(2)
    /\ HasKey(q.file.lines[1].tokens, CarKeys)
    /\ HasKey(q.file.lines[2].tokens, {"top"})
    /\ TileAfter(1, <<0, 0, 0>>).topSurface.carDirection = "NorthSouth"
    /\ TileOf(<<0, 0, 0>>).topSurface.carDirection = "None"
    /\ Pass2(<<q.file.lines[2], q.file.lines[1]>>, 1, m_gridSize, m_textureAliases,
             [tiles |-> FreshTiles(m_gridSize), spawns |-> << >>,
              errors |-> << >>, warnings |-> << >>]).tiles # m_tiles

=============================================================================
